---- MODULE Spec2Model ----
(***************************************************************************)
(* "Find Your Best Spot": the recommendation scoring engine and the        *)
(* loading page that runs it.                                              *)
(*                                                                         *)
(* Numbers.  Sensor averages carry at most one decimal (Math.round for     *)
(* lux, toFixed(1) for dB and degrees), and the threshold tables have one  *)
(* decimal at most, so every sensor value and every criterion score is     *)
(* kept here as an integer number of TENTHS: 23 degrees is 230, a score of *)
(* 100 is 1000.  comfortScore is kept as an integer number of 1/One.       *)
(* A value that JavaScript holds as number, 'N/A' or undefined is a record *)
(* [kind, val], and so is a score that may be -Infinity.                   *)
(* Rows of the processed datasets carry the zone id and the average; the   *)
(* timeSeries, and the output fields computed from it (durationText) or    *)
(* for display only (zoneImage, feelsLikeTemp), play no part in scoring.   *)
(***************************************************************************)
EXTENDS Integers, Sequences, FiniteSets, TLC

VARIABLES
    pc,                    \* where the call under study is: "start" | "done"
    \* ---- calculateFinalRecommendations: arguments, locals, return value
    lightingPref, spaceUsagePref, temperaturePref,   \* the three preferences
    allProcessedData,      \* [light, noise, temperature]: lists of rows
    scoredSpots,           \* the local scoredSpots before the sort
    finalTopSpots,         \* the returned list
    \* ---- calculateCriterionScore called on its own
    actualValue, otherValue, minPref, maxPref, isDataAvailable,
    score, otherScore,
    \* ---- the loading page
    localStorage,          \* the keys the loading page reads and writes
    csvFiles,              \* what each CSV parses to, for the fetches
    pageData,              \* lightProcessedData, noiseProcessedData, ...
    promises,              \* state of each entry of dataPromises
    allPromise,            \* Promise.all(dataPromises) and its handlers
    location,              \* window.location.href
    clock,                 \* Date.now() - startTime, in ms
    timerDue,              \* the clock at which the navigation timer is due
    \* ---- a CSV parser called on its own
    csv,                   \* the text: its lines, each a list of fields
    sensor,                \* 'Light' | 'Temperature' | 'Noise'
    parserResult,          \* what the call ends with: thrown or returned list
    \* ---- the feels-like lookup
    feelsLikeCsv,          \* the text of ta_Feels_Like_Temperature.csv
    currentAverageTemp,    \* the zone's average temperature, 'N/A' or undefined
    fLLookup,              \* the table processFeelsLikeLookup returns
    feelsLikeTemp,         \* what getFeelsLikeTemperature returns
    \* ---- the zone-column parser called next to the zone-row parser
    columnCsv,             \* the text with a line per hour, a column per zone
    columnResult,          \* what processZoneColumnHourlyData ends with
    \* ---- the duration predictions called on their own
    zoneSeries,            \* the zone's timeSeries, or undefined
    targetRange,           \* the min and max of the target range
    hourRange,             \* startHour and endHour
    durationText,          \* what the prediction returns
    \* ---- a quiz page
    preferenceTypeForPage, \* the preference the page's question asks for
    quizCsv,               \* what the page's CSV fetch is answered with
    quizFetch,             \* the fetch chain: pending | fulfilled | rejected
    setupCalls,            \* how often setupQuizInteractions was invoked
    checkedOption,         \* the value of the checked radio button, or null
    nextButton,            \* disabled, and the class next-btn-active
    \* ---- the menus
    elements,              \* which of the menu elements the page has
    sidebarVisible,        \* .sidebar-menu has class visible
    navMenuActive,         \* #navMenu has class active
    hamburgerActive,       \* .fybs-hamburger has class active
    overlayVisible,        \* .overlay has class visible
    bodyMenuActive         \* body has class menu-active

recVars   == <<lightingPref, spaceUsagePref, temperaturePref, allProcessedData,
               scoredSpots, finalTopSpots>>
scoreVars == <<actualValue, otherValue, minPref, maxPref, isDataAvailable,
               score, otherScore>>
loadVars  == <<localStorage, csvFiles, pageData, promises, allPromise, location,
               clock, timerDue>>
parseVars == <<csv, sensor, parserResult>>
feelVars  == <<feelsLikeCsv, currentAverageTemp, fLLookup, feelsLikeTemp>>
columnVars == <<columnCsv, columnResult>>
durationVars == <<zoneSeries, targetRange, hourRange, durationText>>
quizVars == <<preferenceTypeForPage, quizCsv, quizFetch, setupCalls,
              checkedOption, nextButton>>
menuVars == <<elements, sidebarVisible, navMenuActive, hamburgerActive,
              overlayVisible, bodyMenuActive>>
afterDurationVars == <<quizVars, menuVars>>
afterColumnVars == <<durationVars, afterDurationVars>>
restVars  == <<columnVars, afterColumnVars>>
vars      == <<pc, recVars, scoreVars, loadVars, parseVars, feelVars, restVars>>

-----------------------------------------------------------------------------
(* Values *)

Null == "null"                       \* JavaScript null / a missing storage key

Num(n)    == [kind |-> "number", val |-> n]   \* a numeric average, in tenths
NA        == [kind |-> "N/A", val |-> 0]      \* the literal 'N/A'
Undefined == [kind |-> "undefined", val |-> 0]
\* typeof x === 'number' && !isNaN(x)
IsNumber(x) == x.kind = "number"

NegInfinity == [kind |-> "-Infinity", val |-> 0]
PosInfinity == [kind |-> "Infinity", val |-> 0]
NaN         == [kind |-> "NaN", val |-> 0]
JsonNull    == [kind |-> "null", val |-> 0]

\* What a parser is called with: a text, given by its lines, each the list
\* of its comma-separated fields; or no text at all (null, undefined).
NoText      == [isText |-> FALSE, lines |-> <<>>]
Text(lines) == [isText |-> TRUE, lines |-> lines]

\* How a call ends: with an exception, or with a returned list.
Thrown         == [threw |-> TRUE, value |-> <<>>]
Returned(list) == [threw |-> FALSE, value |-> list]

Max(a, b) == IF a >= b THEN a ELSE b
Min(a, b) == IF a <= b THEN a ELSE b

-----------------------------------------------------------------------------
(* Shared configuration *)

lightingThresholds ==
    ( "dim"           :> [min |-> 0,     max |-> 1500,   ideal |-> 750]
   @@ "balanced"      :> [min |-> 1510,  max |-> 5000,   ideal |-> 3250]
   @@ "well-lit"      :> [min |-> 5010,  max |-> 10000,  ideal |-> 7500]
   @@ "sunny-natural" :> [min |-> 10010, max |-> 100000, ideal |-> 15000] )

noiseWorkTypeThresholds ==
    ( "focus-work"           :> [min |-> 0,   max |-> 450, ideal |-> 400]
   @@ "relaxed-productivity" :> [min |-> 400, max |-> 500, ideal |-> 450]
   @@ "collaborative-work"   :> [min |-> 450, max |-> 550, ideal |-> 500]
   @@ "break-relaxation"     :> [min |-> 0,   max |-> 480, ideal |-> 420] )

temperatureThresholds ==
    ( "stable-comfortable" :> [min |-> 230, max |-> 250, ideal |-> 240]
   @@ "consistently-warm"  :> [min |-> 251, max |-> 300, ideal |-> 270]
   @@ "slightly-cool"      :> [min |-> 180, max |-> 229, ideal |-> 210] )

allThresholds ==
    [lighting |-> lightingThresholds, noise |-> noiseWorkTypeThresholds,
     temperature |-> temperatureThresholds]

MAX_SCORE_PER_CRITERION      == 100
PENALTY_NO_DATA_IF_PREFERRED == -200
PENALTY_OUT_OF_RANGE_FACTOR  == 5

\* Zone ids of the floor plan, in the order the table lists them.
zoneLocations == <<"8", "26", "27", "30", "31", "46", "47", "48">>

-----------------------------------------------------------------------------
(* calculateFinalRecommendations *)

\* Scores are in tenths: 100 points are Tenths(100).
Tenths(x) == x * 10

\* comfortScore 1.0, as a number of 1/One: every comfortScore the code can
\* produce for up to three preferences is a whole number of these.
One == 60 * 3000

\* calculateCriterionScore without the Math.max(0, ...) floor.
calculateCriterionScoreNoFloor(actual, idealValueUnused, minP, maxP, available) ==
    IF ~available \/ ~IsNumber(actual)
    THEN Tenths(PENALTY_NO_DATA_IF_PREFERRED)
    ELSE IF actual.val >= minP /\ actual.val <= maxP
    THEN Tenths(MAX_SCORE_PER_CRITERION)
    ELSE LET diff == IF actual.val < minP THEN minP - actual.val
                                          ELSE actual.val - maxP
         IN  Tenths(MAX_SCORE_PER_CRITERION) - diff * PENALTY_OUT_OF_RANGE_FACTOR

\* calculateCriterionScore with a penalty that ignores the distance.
calculateCriterionScoreFlat(actual, idealValueUnused, minP, maxP, available) ==
    IF ~available \/ ~IsNumber(actual)
    THEN Tenths(PENALTY_NO_DATA_IF_PREFERRED)
    ELSE IF actual.val >= minP /\ actual.val <= maxP
    THEN Tenths(MAX_SCORE_PER_CRITERION)
    ELSE Max(0, Tenths(MAX_SCORE_PER_CRITERION)
                    - Tenths(PENALTY_OUT_OF_RANGE_FACTOR))

calculateCriterionScore(actual, idealValueUnused, minP, maxP, available) ==
    IF ~available \/ ~IsNumber(actual)
    THEN Tenths(PENALTY_NO_DATA_IF_PREFERRED)
    ELSE IF actual.val >= minP /\ actual.val <= maxP
    THEN Tenths(MAX_SCORE_PER_CRITERION)
    ELSE LET diff == IF actual.val < minP THEN minP - actual.val
                                          ELSE actual.val - maxP
         IN  Max(0, Tenths(MAX_SCORE_PER_CRITERION)
                        - diff * PENALTY_OUT_OF_RANGE_FACTOR)

\* normalizeComfortScore with the bonus for met criteria not divided by the
\* number of selected preferences.
normalizeComfortScoreUndivided(originalScore, criteriaMetCount, numSelectedPrefs) ==
    IF numSelectedPrefs = 0
    THEN IF originalScore = NegInfinity
            \/ originalScore.val < PENALTY_NO_DATA_IF_PREFERRED * 15
         THEN 0
         ELSE IF originalScore.val > Tenths(250) THEN One
         ELSE IF originalScore.val > Tenths(150) THEN (8 * One) \div 10
         ELSE IF originalScore.val > Tenths(50)  THEN (6 * One) \div 10
         ELSE IF originalScore.val >= 0          THEN (4 * One) \div 10
         ELSE (2 * One) \div 10
    ELSE
      LET maxPossibleScore == numSelectedPrefs * Tenths(MAX_SCORE_PER_CRITERION)
          minPossiblePenalizedScore ==
              numSelectedPrefs * Tenths(PENALTY_NO_DATA_IF_PREFERRED)
          range == maxPossibleScore - minPossiblePenalizedScore
          normalized ==
              ((originalScore.val - minPossiblePenalizedScore) * One) \div range
      IN  IF originalScore = NegInfinity THEN 0
          ELSE IF criteriaMetCount = numSelectedPrefs /\ numSelectedPrefs > 0
          THEN One
          ELSE IF criteriaMetCount > 0
          THEN One \div 2 + criteriaMetCount * (One \div 2)
          ELSE IF range = 0 THEN 0
          ELSE (Max(0, Min(normalized, One)) * 4) \div 10

\* normalizeComfortScore without the 0.4 scaling of a zone that meets no
\* criterion.
normalizeComfortScoreUnscaled(originalScore, criteriaMetCount, numSelectedPrefs) ==
    IF numSelectedPrefs = 0
    THEN IF originalScore = NegInfinity
            \/ originalScore.val < PENALTY_NO_DATA_IF_PREFERRED * 15
         THEN 0
         ELSE IF originalScore.val > Tenths(250) THEN One
         ELSE IF originalScore.val > Tenths(150) THEN (8 * One) \div 10
         ELSE IF originalScore.val > Tenths(50)  THEN (6 * One) \div 10
         ELSE IF originalScore.val >= 0          THEN (4 * One) \div 10
         ELSE (2 * One) \div 10
    ELSE
      LET maxPossibleScore == numSelectedPrefs * Tenths(MAX_SCORE_PER_CRITERION)
          minPossiblePenalizedScore ==
              numSelectedPrefs * Tenths(PENALTY_NO_DATA_IF_PREFERRED)
          range == maxPossibleScore - minPossiblePenalizedScore
          normalized ==
              ((originalScore.val - minPossiblePenalizedScore) * One) \div range
      IN  IF originalScore = NegInfinity THEN 0
          ELSE IF criteriaMetCount = numSelectedPrefs /\ numSelectedPrefs > 0
          THEN One
          ELSE IF criteriaMetCount > 0
          THEN One \div 2 + (criteriaMetCount * (One \div 2)) \div numSelectedPrefs
          ELSE IF range = 0 THEN 0
          ELSE Max(0, Min(normalized, One))

normalizeComfortScore(originalScore, criteriaMetCount, numSelectedPrefs) ==
    IF numSelectedPrefs = 0
    THEN IF originalScore = NegInfinity
            \/ originalScore.val < PENALTY_NO_DATA_IF_PREFERRED * 15
         THEN 0
         ELSE IF originalScore.val > Tenths(250) THEN One
         ELSE IF originalScore.val > Tenths(150) THEN (8 * One) \div 10
         ELSE IF originalScore.val > Tenths(50)  THEN (6 * One) \div 10
         ELSE IF originalScore.val >= 0          THEN (4 * One) \div 10
         ELSE (2 * One) \div 10
    ELSE
      LET maxPossibleScore == numSelectedPrefs * Tenths(MAX_SCORE_PER_CRITERION)
          minPossiblePenalizedScore ==
              numSelectedPrefs * Tenths(PENALTY_NO_DATA_IF_PREFERRED)
          range == maxPossibleScore - minPossiblePenalizedScore
          normalized ==
              ((originalScore.val - minPossiblePenalizedScore) * One) \div range
      IN  IF originalScore = NegInfinity THEN 0
          ELSE IF criteriaMetCount = numSelectedPrefs /\ numSelectedPrefs > 0
          THEN One
          ELSE IF criteriaMetCount > 0
          THEN One \div 2 + (criteriaMetCount * (One \div 2)) \div numSelectedPrefs
          ELSE IF range = 0 THEN 0
          ELSE (Max(0, Min(normalized, One)) * 4) \div 10

\* new Map(list.map(item => [item.Zones, item])).get(zoneName): the LAST row
\* of the list with that zone id, or undefined.
MapGet(list, zoneName) ==
    LET hits == {i \in 1..Len(list) : list[i].Zones = zoneName}
    IN  IF hits = {} THEN [found |-> FALSE, average |-> Undefined]
        ELSE [found |-> TRUE,
              average |-> list[CHOOSE i \in hits : \A j \in hits : j <= i].average]

\* TargetRange that takes every stored value for an option.
TargetRangeOfAnyValue(pref, table) ==
    IF pref # Null
    THEN IF pref \in DOMAIN table
         THEN [set |-> TRUE, min |-> table[pref].min, max |-> table[pref].max,
               ideal |-> table[pref].ideal]
         ELSE [set |-> TRUE, min |-> 0, max |-> 0, ideal |-> 0]
    ELSE [set |-> FALSE, min |-> 0, max |-> 0, ideal |-> 0]

\* pref ? table[pref] : null, read for truthiness: a missing preference and a
\* preference naming no option of the table both give no target range.
TargetRange(pref, table) ==
    IF pref # Null /\ pref \in DOMAIN table
    THEN [set |-> TRUE, min |-> table[pref].min, max |-> table[pref].max,
          ideal |-> table[pref].ideal]
    ELSE [set |-> FALSE, min |-> 0, max |-> 0, ideal |-> 0]

\* Unique that keeps every occurrence.
UniqueKeepAll(list, seen) == list

RECURSIVE Unique(_, _)
\* [...new Set(list)]: the first occurrence of each element, in order.
Unique(list, seen) ==
    IF list = <<>> THEN <<>>
    ELSE IF Head(list) \in seen THEN Unique(Tail(list), seen)
    ELSE <<Head(list)>> \o Unique(Tail(list), seen \cup {Head(list)})

ZonesOf(list) == [i \in 1..Len(list) |-> list[i].Zones]

\* The union of the zone ids of the three datasets, empty names dropped.
AllZoneNames(data) ==
    SelectSeq(Unique(ZonesOf(data.light) \o ZonesOf(data.noise)
                         \o ZonesOf(data.temperature), {}),
              LAMBDA z : z # "")

Placeholder(zoneId) ==
    [zoneId |-> zoneId, light |-> NA, noise |-> NA, temperature |-> NA,
     originalComfortScore |-> NegInfinity, comfortScore |-> 0,
     criteriaMetCount |-> 0, scores |-> <<>>, metCriteria |-> <<>>,
     rank |-> "Info Unavailable"]

NoDataId      == <<"Zone 1 (No Data)", "Zone 2 (No Data)", "Zone 3 (No Data)">>
FallbackId    == <<"Zone 1 (Fallback)", "Zone 2 (Fallback)", "Zone 3 (Fallback)">>
UnavailableId ==
    <<"Zone 1 (Unavailable)", "Zone 2 (Unavailable)", "Zone 3 (Unavailable)">>

\* zoneId.includes("(No Data)") || includes("(Unavailable)") || includes("(Fallback)")
IsPlaceholderId(zoneId) ==
    \E i \in 1..3 : zoneId \in {NoDataId[i], FallbackId[i], UnavailableId[i]}

\* NoDataSpots with the loop stopping one short.
NoDataSpotsShort == [i \in 1..2 |-> Placeholder(NoDataId[i])]

\* The three "No Data" spots returned when there is no zone at all.
NoDataSpots == [i \in 1..3 |-> Placeholder(NoDataId[i])]

\* avg ?? 'N/A'
OrNA(avg) == IF avg.kind = "undefined" THEN NA ELSE avg

\* Criterion with the met flag set for every available reading.
CriterionMetWhenAvailable(target, zoneFull) ==
    LET avail == zoneFull.found /\ IsNumber(zoneFull.average)
    IN  [score |-> calculateCriterionScore(zoneFull.average, target.ideal,
                                           target.min, target.max, avail),
         met   |-> avail]

\* One criterion of one zone: its score and its met flag.
Criterion(target, zoneFull) ==
    LET avail == zoneFull.found /\ IsNumber(zoneFull.average)
    IN  [score |-> calculateCriterionScore(zoneFull.average, target.ideal,
                                           target.min, target.max, avail),
         met   |-> avail /\ zoneFull.average.val >= target.min
                         /\ zoneFull.average.val <= target.max]

\* The body of allZoneNames.forEach: the entry pushed for one zone.
ScoreZone(zoneName, lPref, sPref, tPref, data) ==
    LET targetLightRange == TargetRange(lPref, allThresholds.lighting)
        targetNoiseRange == TargetRange(sPref, allThresholds.noise)
        targetTemperatureRange == TargetRange(tPref, allThresholds.temperature)
        zoneLightFull == MapGet(data.light, zoneName)
        zoneNoiseFull == MapGet(data.noise, zoneName)
        zoneTempFull  == MapGet(data.temperature, zoneName)
        l == Criterion(targetLightRange, zoneLightFull)
        n == Criterion(targetNoiseRange, zoneNoiseFull)
        t == Criterion(targetTemperatureRange, zoneTempFull)
        lightScore == IF targetLightRange.set THEN l.score ELSE 0
        noiseScore == IF targetNoiseRange.set THEN n.score ELSE 0
        tempScore  == IF targetTemperatureRange.set THEN t.score ELSE 0
        selected == {k \in {"light", "noise", "temp"} :
                        \/ k = "light" /\ targetLightRange.set
                        \/ k = "noise" /\ targetNoiseRange.set
                        \/ k = "temp" /\ targetTemperatureRange.set}
        metCriteria == [k \in selected |->
                           IF k = "light" THEN l.met
                           ELSE IF k = "noise" THEN n.met ELSE t.met]
        criteriaMetCount == Cardinality({k \in selected : metCriteria[k]})
        originalTotalScore == lightScore + noiseScore + tempScore
        numSelectedPreferences == Cardinality(selected)
    IN  [zoneId |-> zoneName,
         light |-> OrNA(zoneLightFull.average),
         noise |-> OrNA(zoneNoiseFull.average),
         temperature |-> OrNA(zoneTempFull.average),
         originalComfortScore |-> Num(originalTotalScore),
         comfortScore |-> normalizeComfortScore(Num(originalTotalScore),
                              criteriaMetCount, numSelectedPreferences),
         criteriaMetCount |-> criteriaMetCount,
         scores |-> [light |-> lightScore, noise |-> noiseScore,
                     temp |-> tempScore],
         metCriteria |-> metCriteria,
         rank |-> "undefined"]

\* scoredSpots after the forEach, before the sort.
ScoredSpots(lPref, sPref, tPref, data) ==
    LET names == AllZoneNames(data)
    IN  [i \in 1..Len(names) |-> ScoreZone(names[i], lPref, sPref, tPref, data)]

\* CompareSpots with the operands of the subtractions swapped.
CompareSpotsAscending(a, b) ==
    IF b.comfortScore # a.comfortScore THEN a.comfortScore - b.comfortScore
    ELSE a.criteriaMetCount - b.criteriaMetCount

\* The sort comparator: negative when a goes before b.
CompareSpots(a, b) ==
    IF b.comfortScore # a.comfortScore THEN b.comfortScore - a.comfortScore
    ELSE b.criteriaMetCount - a.criteriaMetCount

RECURSIVE InsertSpotBeforeEqual(_, _)
\* InsertSpot that puts x before the entries it compares equal to: the sort
\* no longer keeps equal entries in their original order.
InsertSpotBeforeEqual(sorted, x) ==
    IF sorted = <<>> THEN <<x>>
    ELSE IF CompareSpots(Head(sorted), x) >= 0 THEN <<x>> \o sorted
    ELSE <<Head(sorted)>> \o InsertSpotBeforeEqual(Tail(sorted), x)

RECURSIVE InsertSpot(_, _)
\* x goes after every entry the comparator does not put behind it.
InsertSpot(sorted, x) ==
    IF sorted = <<>> THEN <<x>>
    ELSE IF CompareSpots(Head(sorted), x) > 0 THEN <<x>> \o sorted
    ELSE <<Head(sorted)>> \o InsertSpot(Tail(sorted), x)

RECURSIVE SortSpots(_)
\* Array.prototype.sort with CompareSpots: a stable sort.
SortSpots(list) ==
    IF list = <<>> THEN <<>>
    ELSE InsertSpot(SortSpots(SubSeq(list, 1, Len(list) - 1)), list[Len(list)])

\* scoredSpots.slice(0, 3)
TopThree(list) == SubSeq(list, 1, Min(3, Len(list)))

\* RankOf with the labels given by a one-based index.
RankOfOneBased(zoneId, index) ==
    IF zoneId # "" /\ ~IsPlaceholderId(zoneId)
    THEN IF index = 1 THEN "Best Match"
         ELSE IF index = 2 THEN "2nd Choice"
         ELSE IF index = 3 THEN "3rd Choice" ELSE "undefined"
    ELSE "Info Unavailable"

RankOf(zoneId, index) ==
    IF zoneId # "" /\ ~IsPlaceholderId(zoneId)
    THEN IF index = 0 THEN "Best Match"
         ELSE IF index = 1 THEN "2nd Choice"
         ELSE IF index = 2 THEN "3rd Choice" ELSE "undefined"
    ELSE "Info Unavailable"

\* finalTopSpots.forEach((spot, index) => ...): index is zero-based.
AssignRanks(list) ==
    [i \in 1..Len(list) |-> [list[i] EXCEPT !.rank = RankOf(list[i].zoneId, i - 1)]]

\* FillFallback that pads up to three entries whatever the number of zones.
FillFallbackToThree(list, numZones) ==
    list \o [i \in 1..(3 - Len(list)) |-> Placeholder(FallbackId[Len(list) + i])]

RECURSIVE FillFallback(_, _)
\* while (finalTopSpots.length < 3 && finalTopSpots.length < allZoneNames.length)
FillFallback(list, numZones) ==
    IF Len(list) < 3 /\ Len(list) < numZones
    THEN FillFallback(Append(list, Placeholder(FallbackId[Len(list) + 1])), numZones)
    ELSE list

\* if (allZoneNames.length === 0 && finalTopSpots.length === 0)
FinalFallback(list, numZones) ==
    IF numZones = 0 /\ Len(list) = 0
    THEN [i \in 1..3 |-> Placeholder(UnavailableId[i])]
    ELSE list

calculateFinalRecommendations(lPref, sPref, tPref, data) ==
    LET numZones == Len(AllZoneNames(data))
    IN  IF numZones = 0 THEN NoDataSpots
        ELSE FinalFallback(
                 FillFallback(
                     AssignRanks(TopThree(SortSpots(
                         ScoredSpots(lPref, sPref, tPref, data)))),
                     numZones),
                 numZones)

-----------------------------------------------------------------------------
(* Inputs of a recommendation run *)

\* Rows over the three datasets together.
MaxRows == 4

\* Averages a parser can hand over (tenths): lux is a whole number, dB and
\* degrees have one decimal, and a zone without office-hours data has 'N/A'.
\* 700 lux is well-lit and 495 lux is 6 lux short of it; 42 dB suits focus
\* work; 24 degrees is stable-comfortable.
LightAverages == {Num(7000), Num(4950)}
NoiseAverages == {Num(420), NA}
TempAverages  == {Num(240)}

\* The stored preference values: null or an option of the quiz.
LightingPrefs    == {Null, "well-lit"}
SpaceUsagePrefs  == {Null, "focus-work"}
TemperaturePrefs == {Null, "stable-comfortable"}

\* Datasets by number: 1 light, 2 noise, 3 temperature.
AveragesOf(s) == IF s = 1 THEN LightAverages
                 ELSE IF s = 2 THEN NoiseAverages ELSE TempAverages

\* Number of distinct zones among the rows.
NumZonesIn(rows) == Cardinality({rows[i].z : i \in 1..Len(rows)})

\* One more row: of the same dataset as the last row or of a later one, for a
\* zone already seen or for the next zone id.  The scoring does not look into
\* a zone id, so the k-th distinct zone to appear is always zoneLocations[k].
MoreRows(rows) ==
    LET from == IF rows = <<>> THEN 1 ELSE rows[Len(rows)].s
    IN  UNION { { Append(rows, [s |-> s, z |-> z, average |-> a]) :
                    z \in 1..(NumZonesIn(rows) + 1), a \in AveragesOf(s) } :
                s \in from..3 }

RECURSIVE RowLists(_)
\* Every list of at most k rows.
RowLists(k) ==
    IF k = 0 THEN {<<>>}
    ELSE LET shorter == RowLists(k - 1)
         IN  shorter \cup UNION { MoreRows(r) : r \in {x \in shorter : Len(x) = k - 1} }

\* The rows of dataset s, as the parsers hand them over.
Dataset(rows, s) ==
    LET own == SelectSeq(rows, LAMBDA r : r.s = s)
    IN  [i \in 1..Len(own) |->
            [Zones |-> zoneLocations[own[i].z], average |-> own[i].average]]

ProcessedData(rows) ==
    [light |-> Dataset(rows, 1), noise |-> Dataset(rows, 2),
     temperature |-> Dataset(rows, 3)]

EmptyData == [light |-> <<>>, noise |-> <<>>, temperature |-> <<>>]

-----------------------------------------------------------------------------
(* Idle values: each specification leaves the other parts untouched. *)

RecIdle ==
    /\ lightingPref = Null /\ spaceUsagePref = Null /\ temperaturePref = Null
    /\ allProcessedData = EmptyData
    /\ scoredSpots = <<>> /\ finalTopSpots = <<>>

ScoreIdle ==
    /\ actualValue = NA /\ otherValue = NA /\ minPref = 0 /\ maxPref = 0
    /\ isDataAvailable = FALSE /\ score = 0 /\ otherScore = 0

LoadIdle ==
    /\ localStorage = <<>> /\ csvFiles = <<>> /\ pageData = <<>>
    /\ promises = <<>> /\ allPromise = "idle" /\ location = "idle"
    /\ clock = 0 /\ timerDue = 0

ParseIdle ==
    /\ csv = NoText /\ sensor = "idle"
    /\ parserResult = Returned(<<>>)

FeelIdle ==
    /\ feelsLikeCsv = NoText /\ currentAverageTemp = NA
    /\ fLLookup = <<>> /\ feelsLikeTemp = NA

ColumnIdle == columnCsv = NoText /\ columnResult = Returned(<<>>)

DurationIdle ==
    /\ zoneSeries = Undefined /\ targetRange = <<>> /\ hourRange = <<>>
    /\ durationText = ""

QuizIdle ==
    /\ preferenceTypeForPage = "" /\ quizCsv = <<>> /\ quizFetch = "idle"
    /\ setupCalls = 0 /\ checkedOption = Null /\ nextButton = <<>>

MenuIdle ==
    /\ elements = <<>> /\ sidebarVisible = FALSE /\ navMenuActive = FALSE
    /\ hamburgerActive = FALSE /\ overlayVisible = FALSE
    /\ bodyMenuActive = FALSE

AfterDurationIdle == QuizIdle /\ MenuIdle
AfterColumnIdle == DurationIdle /\ AfterDurationIdle

RestIdle == ColumnIdle /\ AfterColumnIdle

-----------------------------------------------------------------------------
(* Spec: one call of calculateFinalRecommendations on any input *)

Init ==
    /\ \E rows \in RowLists(MaxRows) : allProcessedData = ProcessedData(rows)
    /\ lightingPref \in LightingPrefs
    /\ spaceUsagePref \in SpaceUsagePrefs
    /\ temperaturePref \in TemperaturePrefs
    /\ scoredSpots = <<>> /\ finalTopSpots = <<>> /\ pc = "start"
    /\ ScoreIdle /\ LoadIdle /\ ParseIdle /\ FeelIdle /\ RestIdle

\* The call: scoredSpots is the list as pushed, before the in-place sort;
\* finalTopSpots is the value returned.
Recommend ==
    /\ pc = "start"
    /\ scoredSpots' =
         IF AllZoneNames(allProcessedData) = <<>> THEN NoDataSpots
         ELSE ScoredSpots(lightingPref, spaceUsagePref, temperaturePref,
                          allProcessedData)
    /\ finalTopSpots' =
         calculateFinalRecommendations(lightingPref, spaceUsagePref,
                                       temperaturePref, allProcessedData)
    /\ pc' = "done"
    /\ UNCHANGED <<lightingPref, spaceUsagePref, temperaturePref, allProcessedData>>
    /\ UNCHANGED <<scoreVars, loadVars, parseVars, feelVars, restVars>>

Next == Recommend

Spec == Init /\ [][Next]_vars

-----------------------------------------------------------------------------
(* Claims about one call of calculateFinalRecommendations *)

Done == pc = "done"

\* The three target ranges of the call.
LightTarget == TargetRange(lightingPref, lightingThresholds)
NoiseTarget == TargetRange(spaceUsagePref, noiseWorkTypeThresholds)
TempTarget  == TargetRange(temperaturePref, temperatureThresholds)
NumSelected ==
    Cardinality({t \in {<<1, LightTarget>>, <<2, NoiseTarget>>, <<3, TempTarget>>} :
                    t[2].set})

\* Number of distinct zone ids over the three datasets.
NumZones ==
    Cardinality({allProcessedData.light[i].Zones : i \in 1..Len(allProcessedData.light)}
        \cup {allProcessedData.noise[i].Zones : i \in 1..Len(allProcessedData.noise)}
        \cup {allProcessedData.temperature[i].Zones :
                  i \in 1..Len(allProcessedData.temperature)})

\* C1: the returned list has exactly 3 entries for every input, and with
\* fewer than 3 real zones the tail of the list is placeholder entries.
C1_AlwaysThreeEntries ==
    Done => /\ Len(finalTopSpots) = 3
            /\ \A i \in 1..3 : i > NumZones => IsPlaceholderId(finalTopSpots[i].zoneId)

\* C2: every entry produced has 0 <= comfortScore <= 1, whatever the number
\* of selected preferences and whatever data a zone lacks.
C2_ComfortScoreInUnitInterval ==
    Done => /\ \A i \in 1..Len(finalTopSpots) :
                 /\ finalTopSpots[i].comfortScore >= 0
                 /\ finalTopSpots[i].comfortScore <= One
            /\ \A i \in 1..Len(scoredSpots) :
                 /\ scoredSpots[i].comfortScore >= 0
                 /\ scoredSpots[i].comfortScore <= One

\* C2 happens: three preferences, and a returned zone that has no noise
\* reading, meets some criterion but not all.
C2_Witness ==
    /\ Done /\ NumSelected = 3
    /\ \E i \in 1..Len(finalTopSpots) :
         /\ finalTopSpots[i].noise = NA
         /\ finalTopSpots[i].comfortScore > One \div 2
         /\ finalTopSpots[i].comfortScore < One

\* The order the list is said to have: a is not after b.
NotAfter(a, b) ==
    \/ a.comfortScore > b.comfortScore
    \/ a.comfortScore = b.comfortScore /\ a.criteriaMetCount >= b.criteriaMetCount

\* C6: the returned list is ordered by comfortScore descending, equal
\* comfortScores by criteriaMetCount descending, and no scored zone left out
\* of the list has a higher comfortScore than a zone in the list.
C6_SortedTopOfOrder ==
    Done =>
        /\ \A i, j \in 1..Len(finalTopSpots) :
             i < j => NotAfter(finalTopSpots[i], finalTopSpots[j])
        /\ \A k \in 1..Len(scoredSpots) :
             (\A i \in 1..Len(finalTopSpots) :
                  finalTopSpots[i].zoneId # scoredSpots[k].zoneId)
             => \A i \in 1..Len(finalTopSpots) :
                  scoredSpots[k].comfortScore <= finalTopSpots[i].comfortScore

\* C6 happens: four zones were scored, one was cut, and the scores of the
\* returned three are not all equal.
C6_Witness ==
    /\ Done /\ Len(scoredSpots) = 4 /\ Len(finalTopSpots) = 3
    /\ finalTopSpots[1].comfortScore > finalTopSpots[3].comfortScore
    /\ \E k \in 1..4 :
         /\ \A i \in 1..3 : finalTopSpots[i].zoneId # scoredSpots[k].zoneId
         /\ scoredSpots[k].comfortScore < finalTopSpots[3].comfortScore

\* C7: with no zone id in any dataset the call returns exactly 3 placeholder
\* entries, each with rank 'Info Unavailable', comfortScore 0 and
\* originalComfortScore -Infinity, whatever the preferences.
C7_NoZonesThreePlaceholders ==
    Done /\ NumZones = 0 =>
        /\ Len(finalTopSpots) = 3
        /\ \A i \in 1..Len(finalTopSpots) :
             /\ IsPlaceholderId(finalTopSpots[i].zoneId)
             /\ finalTopSpots[i].rank = "Info Unavailable"
             /\ finalTopSpots[i].comfortScore = 0
             /\ finalTopSpots[i].originalComfortScore = NegInfinity

\* C7 happens: no zone, and preferences selected.
C7_Witness == Done /\ NumZones = 0 /\ NumSelected = 3

\* C8: every entry has a rank; a real zone at position 0, 1, 2 is 'Best
\* Match', '2nd Choice', '3rd Choice', and the rank is 'Info Unavailable'
\* exactly for the placeholder ids.
C8_RanksByPosition ==
    Done => \A i \in 1..Len(finalTopSpots) :
        LET spot == finalTopSpots[i]
        IN  /\ spot.rank \in {"Best Match", "2nd Choice", "3rd Choice",
                              "Info Unavailable"}
            /\ (spot.rank = "Info Unavailable") <=> IsPlaceholderId(spot.zoneId)
            /\ ~IsPlaceholderId(spot.zoneId) =>
                 spot.rank = <<"Best Match", "2nd Choice", "3rd Choice">>[i]

\* C8 happens: three real zones ranked, the best one not the first scored.
C8_Witness ==
    /\ Done /\ Len(finalTopSpots) = 3
    /\ finalTopSpots[3].rank = "3rd Choice"
    /\ finalTopSpots[1].zoneId # scoredSpots[1].zoneId

\* The zone ids of the three datasets together.
UnionZones ==
    {allProcessedData.light[i].Zones : i \in 1..Len(allProcessedData.light)}
        \cup {allProcessedData.noise[i].Zones : i \in 1..Len(allProcessedData.noise)}
        \cup {allProcessedData.temperature[i].Zones :
                  i \in 1..Len(allProcessedData.temperature)}

HasRow(list, zoneName) == \E i \in 1..Len(list) : list[i].Zones = zoneName

\* The entries pushed for a zone before the sort.
EntriesOf(zoneName) ==
    {i \in 1..Len(scoredSpots) : scoredSpots[i].zoneId = zoneName}

\* originalComfortScore is the sum of the three contributions.
SumOfScores(spot) ==
    spot.originalComfortScore
        = Num(spot.scores.light + spot.scores.noise + spot.scores.temp)

\* C14 as stated: every zone id of the union has exactly one scored entry,
\* and a sensor whose dataset has no row for the zone contributes 0 to the
\* zone's originalComfortScore.
C14_AbsentSensorContributesZero ==
    Done /\ NumZones > 0 =>
        \A z \in UnionZones :
            /\ Cardinality(EntriesOf(z)) = 1
            /\ \A i \in EntriesOf(z) :
                 LET spot == scoredSpots[i]
                 IN  /\ SumOfScores(spot)
                     /\ ~HasRow(allProcessedData.light, z) => spot.scores.light = 0
                     /\ ~HasRow(allProcessedData.noise, z) => spot.scores.noise = 0
                     /\ ~HasRow(allProcessedData.temperature, z)
                          => spot.scores.temp = 0

\* C14 amended: every zone id of the union has exactly one scored entry; a
\* sensor whose dataset has no row for the zone contributes 0 when its
\* preference is not selected and the no-data penalty of -200 when it is.
C14_AbsentSensorPenalisedWhenSelected ==
    Done /\ NumZones > 0 =>
        \A z \in UnionZones :
            /\ Cardinality(EntriesOf(z)) = 1
            /\ \A i \in EntriesOf(z) :
                 LET spot == scoredSpots[i]
                 IN  /\ SumOfScores(spot)
                     /\ ~HasRow(allProcessedData.light, z) =>
                          spot.scores.light = IF LightTarget.set THEN -2000 ELSE 0
                     /\ ~HasRow(allProcessedData.noise, z) =>
                          spot.scores.noise = IF NoiseTarget.set THEN -2000 ELSE 0
                     /\ ~HasRow(allProcessedData.temperature, z) =>
                          spot.scores.temp = IF TempTarget.set THEN -2000 ELSE 0

\* C14 happens: a zone with a row in the light dataset only, several times,
\* scored once with light and noise selected and temperature not.
C14_Witness ==
    /\ Done /\ LightTarget.set /\ NoiseTarget.set /\ ~TempTarget.set
    /\ \E z \in UnionZones :
         /\ Cardinality({i \in 1..Len(allProcessedData.light) :
                            allProcessedData.light[i].Zones = z}) >= 2
         /\ ~HasRow(allProcessedData.noise, z)
         /\ ~HasRow(allProcessedData.temperature, z)
         /\ \E i \in EntriesOf(z) :
              /\ scoredSpots[i].scores.light = 1000
              /\ scoredSpots[i].scores.noise = -2000
              /\ scoredSpots[i].scores.temp = 0
              /\ scoredSpots[i].originalComfortScore = Num(-1000)

\* The comfortScore of a zone with n >= 1 selected preferences, m met
\* criteria and raw score S (tenths), in 1/One: 1.0, or 0.5 + (m/n)*0.5, or
\* 0.4 * clamp((S + 200n) / (300n), 0, 1).
ComfortScoreFor(S, m, n) ==
    IF m = n THEN One
    ELSE IF m > 0 THEN One \div 2 + (m * One) \div (2 * n)
    ELSE LET ratio == ((S + 2000 * n) * One) \div (3000 * n)
         IN  (4 * Max(0, Min(ratio, One))) \div 10

\* C15: with n >= 1 preferences selected every scored zone has the
\* comfortScore given by its met count m and raw score S: 1.0 for m = n,
\* 0.5 + (m/n)*0.5 for 0 < m < n, 0.4 * clamp((S + 200n)/(300n), 0, 1) for
\* m = 0; a zone with no met criterion is below 0.4 and strictly below every
\* zone with a met criterion.
C15_ScoreByMetCount ==
    Done /\ NumSelected >= 1 /\ NumZones > 0 =>
        \A i \in 1..Len(scoredSpots) :
            LET spot == scoredSpots[i]
            IN  /\ spot.comfortScore =
                     ComfortScoreFor(spot.originalComfortScore.val,
                                     spot.criteriaMetCount, NumSelected)
                /\ spot.criteriaMetCount = 0 =>
                     /\ spot.comfortScore < (4 * One) \div 10
                     /\ \A j \in 1..Len(scoredSpots) :
                          scoredSpots[j].criteriaMetCount >= 1
                              => spot.comfortScore < scoredSpots[j].comfortScore

\* C15 happens: two preferences; one zone meets both, one meets one, and one
\* meets none but has a reading near the range, so that it scores above 0.
C15_Witness ==
    /\ Done /\ NumSelected = 2
    /\ \E i, j, k \in 1..Len(scoredSpots) :
         /\ scoredSpots[i].criteriaMetCount = 2 /\ scoredSpots[i].comfortScore = One
         /\ scoredSpots[j].criteriaMetCount = 1
         /\ scoredSpots[j].comfortScore = (3 * One) \div 4
         /\ scoredSpots[k].criteriaMetCount = 0
         /\ scoredSpots[k].comfortScore > 0

SelectedFamilies ==
    {k \in {"light", "noise", "temp"} :
        \/ k = "light" /\ LightTarget.set
        \/ k = "noise" /\ NoiseTarget.set
        \/ k = "temp" /\ TempTarget.set}

\* C18: for every scored zone and selected family X, metCriteria.X is true
\* exactly when scores.X is 100; criteriaMetCount is the number of true flags
\* and is at most the number of selected preferences.
C18_MetIffFullScore ==
    Done /\ NumZones > 0 =>
        \A i \in 1..Len(scoredSpots) :
            LET spot == scoredSpots[i]
            IN  /\ DOMAIN spot.metCriteria = SelectedFamilies
                /\ \A k \in SelectedFamilies :
                     spot.metCriteria[k] <=> spot.scores[k] = 1000
                /\ spot.criteriaMetCount =
                     Cardinality({k \in SelectedFamilies : spot.metCriteria[k]})
                /\ spot.criteriaMetCount <= NumSelected

\* C18 happens: three preferences, a zone with one flag true on a reading in
\* range, one false on a reading out of range and one false for no reading.
C18_Witness ==
    /\ Done /\ NumSelected = 3 /\ NumZones > 0
    /\ \E i \in 1..Len(scoredSpots) :
         /\ scoredSpots[i].metCriteria["light"] = FALSE
         /\ scoredSpots[i].scores.light = 700
         /\ scoredSpots[i].metCriteria["noise"] = TRUE
         /\ scoredSpots[i].scores.noise = 1000
         /\ scoredSpots[i].metCriteria["temp"] = FALSE
         /\ scoredSpots[i].scores.temp = -2000
         /\ scoredSpots[i].criteriaMetCount = 1

-----------------------------------------------------------------------------
(* SpecMatch: a call with all three preferences selected, on zones that    *)
(* each have a light and a temperature row and may have a noise row.       *)

MaxFullZones == 3

\* What a zone has in each dataset; Undefined is no row.
Profiles ==
    [light : LightAverages, noise : {Num(420), Undefined}, temp : {Num(240), NA}]

Row(z, average) == [Zones |-> zoneLocations[z], average |-> average]

\* The light rows come in any order, the noise and temperature rows in the
\* order of the zone table.
FullData(n, profile, lightOrder) ==
    [light |-> [i \in 1..n |-> Row(lightOrder[i], profile[lightOrder[i]].light)],
     noise |-> LET have == SelectSeq([k \in 1..n |-> k],
                                     LAMBDA k : profile[k].noise # Undefined)
               IN  [i \in 1..Len(have) |-> Row(have[i], profile[have[i]].noise)],
     temperature |-> [k \in 1..n |-> Row(k, profile[k].temp)]]

InitMatch ==
    /\ \E n \in 1..MaxFullZones :
         \E profile \in [1..n -> Profiles], lightOrder \in Permutations(1..n) :
            allProcessedData = FullData(n, profile, lightOrder)
    /\ lightingPref = "well-lit"
    /\ spaceUsagePref = "focus-work"
    /\ temperaturePref = "stable-comfortable"
    /\ scoredSpots = <<>> /\ finalTopSpots = <<>> /\ pc = "start"
    /\ ScoreIdle /\ LoadIdle /\ ParseIdle /\ FeelIdle /\ RestIdle

SpecMatch == InitMatch /\ [][Next]_vars

\* The reading of a zone in a dataset is the one the call looks up: the last
\* row of the dataset with that zone id.
ReadingInRange(list, zoneName, target) ==
    LET r == MapGet(list, zoneName)
    IN  /\ r.found /\ IsNumber(r.average)
        /\ target.min <= r.average.val /\ r.average.val <= target.max

Qualifies(zoneName) ==
    /\ ReadingInRange(allProcessedData.light, zoneName, LightTarget)
    /\ ReadingInRange(allProcessedData.noise, zoneName, NoiseTarget)
    /\ ReadingInRange(allProcessedData.temperature, zoneName, TempTarget)

\* Positions, in the union enumeration, of the zones with all three readings
\* in range.
QualifyingPositions ==
    LET names == AllZoneNames(allProcessedData)
    IN  {i \in 1..Len(names) : Qualifies(names[i])}

\* C3: with all three preferences selected, a zone whose three averages lie
\* in the selected ranges has comfortScore 1.0, and the first such zone of the
\* union enumeration is at position 0 of the returned list.
C3_AllMetRanksFirst ==
    Done /\ NumSelected = 3 =>
        LET names == AllZoneNames(allProcessedData)
            qualifying == QualifyingPositions
        IN  /\ \A i \in qualifying :
                 /\ scoredSpots[i].zoneId = names[i]
                 /\ scoredSpots[i].comfortScore = One
            /\ qualifying # {} =>
                 LET first == CHOOSE i \in qualifying : \A j \in qualifying : i <= j
                 IN  /\ finalTopSpots[1].zoneId = names[first]
                     /\ finalTopSpots[1].comfortScore = One

\* C3 happens: several zones qualify, the first zone of the enumeration is
\* not one of them, and the light rows are not in the order of the others.
C3_Witness ==
    /\ Done /\ NumSelected = 3
    /\ Cardinality(QualifyingPositions) >= 2
    /\ 1 \notin QualifyingPositions
    /\ ZonesOf(allProcessedData.light) # ZonesOf(allProcessedData.temperature)
    /\ finalTopSpots[1].comfortScore = One

-----------------------------------------------------------------------------
(* SpecNoPref: a call in which no stored preference names an option of the *)
(* threshold tables: the key is missing, or holds a radio value the tables *)
(* do not have, or the empty string.                                       *)

MaxUnscoredRows == 4

UnknownLightingPrefs    == {Null, "bright"}
UnknownSpaceUsagePrefs  == {Null, ""}
UnknownTemperaturePrefs == {Null, "warm"}

InitNoPref ==
    /\ \E rows \in RowLists(MaxUnscoredRows) :
           allProcessedData = ProcessedData(rows)
    /\ lightingPref \in UnknownLightingPrefs
    /\ spaceUsagePref \in UnknownSpaceUsagePrefs
    /\ temperaturePref \in UnknownTemperaturePrefs
    /\ scoredSpots = <<>> /\ finalTopSpots = <<>> /\ pc = "start"
    /\ ScoreIdle /\ LoadIdle /\ ParseIdle /\ FeelIdle /\ RestIdle

SpecNoPref == InitNoPref /\ [][Next]_vars

\* No stored preference names an option of its table.
NoKnownOption ==
    /\ lightingPref \notin DOMAIN lightingThresholds
    /\ spaceUsagePref \notin DOMAIN noiseWorkTypeThresholds
    /\ temperaturePref \notin DOMAIN temperatureThresholds

-----------------------------------------------------------------------------
(* SpecScore: calculateCriterionScore on its own, on two values against    *)
(* the same range.                                                         *)

\* Largest value scored, in whole units (dB or degrees).
MaxActual == 50

\* Values from 0 to MaxActual in steps of half a unit, in tenths.
ActualValues == {5 * k : k \in 0..(2 * MaxActual)}

\* The ranges of the noise and temperature options.
ScoreRanges ==
    {noiseWorkTypeThresholds[o] : o \in DOMAIN noiseWorkTypeThresholds}
        \cup {temperatureThresholds[o] : o \in DOMAIN temperatureThresholds}

InitScore ==
    /\ actualValue \in {Num(v) : v \in ActualValues} \cup {NA, Undefined}
    /\ otherValue \in {Num(v) : v \in ActualValues}
    /\ \E r \in ScoreRanges : minPref = r.min /\ maxPref = r.max
    /\ isDataAvailable \in BOOLEAN
    /\ score = 0 /\ otherScore = 0 /\ pc = "start"
    /\ RecIdle /\ LoadIdle /\ ParseIdle /\ FeelIdle /\ RestIdle

\* score is the result for actualValue with the availability flag as given,
\* otherScore the result for otherValue, an available reading.
ScoreBoth ==
    /\ pc = "start"
    /\ score' = calculateCriterionScore(actualValue, 0, minPref, maxPref,
                                        isDataAvailable)
    /\ otherScore' = calculateCriterionScore(otherValue, 0, minPref, maxPref, TRUE)
    /\ pc' = "done"
    /\ UNCHANGED <<actualValue, otherValue, minPref, maxPref, isDataAvailable>>
    /\ UNCHANGED <<recVars, loadVars, parseVars, feelVars, restVars>>

NextScore == ScoreBoth

SpecScore == InitScore /\ [][NextScore]_vars

\* The reading counts: flagged available, and a number.
Counted == isDataAvailable /\ actualValue.kind = "number"

\* C4: -200 without a usable reading, 100 inside [min,max], otherwise
\* max(0, 100 - 5*diff) with diff the distance to the nearer end of the
\* range; so the result is always within [-200, 100].  (Tenths.)
C4_CriterionScoreValue ==
    Done =>
        /\ ~Counted => score = -2000
        /\ Counted /\ minPref <= actualValue.val /\ actualValue.val <= maxPref
             => score = 1000
        /\ Counted /\ actualValue.val < minPref
             => score = IF 5 * (minPref - actualValue.val) > 1000 THEN 0
                        ELSE 1000 - 5 * (minPref - actualValue.val)
        /\ Counted /\ actualValue.val > maxPref
             => score = IF 5 * (actualValue.val - maxPref) > 1000 THEN 0
                        ELSE 1000 - 5 * (actualValue.val - maxPref)
        /\ -2000 <= score /\ score <= 1000

\* C4 happens: a reading so far above the range that the floor applies, and
\* next to it one scored between 0 and 100.
C4_Witness ==
    /\ Done /\ Counted
    /\ actualValue.val > maxPref + 200 /\ score = 0
    /\ otherValue.val > maxPref /\ otherScore > 0 /\ otherScore < 1000

\* actualValue and otherValue are outside the range on the same side, and
\* actualValue is the further one.
Further ==
    \/ actualValue.val < otherValue.val /\ otherValue.val < minPref
    \/ actualValue.val > otherValue.val /\ otherValue.val > maxPref

\* C5 as stated: outside the range, on one side, the further value always
\* scores strictly less; inside the range the score is 100.
C5_StrictlyDecreasing ==
    Done /\ Counted =>
        /\ Further => score < otherScore
        /\ minPref <= actualValue.val /\ actualValue.val <= maxPref => score = 1000

\* C5 amended: the further value never scores more, and scores strictly less
\* unless the nearer value is already at the floor of 0; inside the range the
\* score is 100.
C5_DecreasingDownToFloor ==
    Done /\ Counted =>
        /\ Further => /\ score <= otherScore
                      /\ otherScore > 0 => score < otherScore
        /\ minPref <= actualValue.val /\ actualValue.val <= maxPref => score = 1000

\* C5 happens: two values below the range with different positive scores.
C5_Witness ==
    /\ Done /\ Counted /\ Further
    /\ otherValue.val < minPref
    /\ 0 < score /\ score < otherScore /\ otherScore < 1000

-----------------------------------------------------------------------------
(* SpecLoad: the loading page.  Init is the page once its script has run   *)
(* to the end: preferences and stored datasets read, dataPromises built,   *)
(* Promise.all pending.  Each fetch then settles in its own step.  A CSV   *)
(* is given by the list its parser makes of it.                            *)

LoadLightData == {<<>>, <<Row(1, Num(7000)), Row(2, Num(4950))>>}
LoadNoiseData == {<<>>, <<Row(1, Num(420)), Row(3, NA)>>}
LoadTempData  == {<<>>, <<Row(2, Num(240)), Row(4, Num(240))>>}

\* JSON.stringify then JSON.parse of a recommendation list: -Infinity comes
\* back as null, everything else as it was.
JsonRoundTrip(list) ==
    [i \in 1..Len(list) |->
        IF list[i].originalComfortScore = NegInfinity
        THEN [list[i] EXCEPT !.originalComfortScore = JsonNull]
        ELSE list[i]]

\* A finalRecommendations left in storage by an earlier run.
EarlierRecommendations ==
    JsonRoundTrip(calculateFinalRecommendations("dim", Null, Null,
        [light |-> <<Row(5, Num(1000))>>, noise |-> <<>>, temperature |-> <<>>]))

NotStored == [set |-> FALSE, value |-> <<>>]
Stored(list) == [set |-> TRUE, value |-> list]

\* Minimum time to show the loading animation, in ms.
minLoadingTime == 2000

MaxClock == 3000
TickSteps == {1000, 1500}

\* The timer armed with no delay at all.
TimerDelayNone(elapsedTime) == 0

\* Math.max(0, minLoadingTime - elapsedTime)
TimerDelay(elapsedTime) == Max(0, minLoadingTime - elapsedTime)

\* if (data.length === 0 && pref) fetch(...) else Promise.resolve(data)
FirstState(data, pref) ==
    IF Len(data) = 0 /\ pref # Null THEN "pending" ELSE "fulfilled"

InitLoad ==
    /\ \E l \in LightingPrefs, s \in SpaceUsagePrefs, t \in TemperaturePrefs,
          ld \in LoadLightData, nd \in LoadNoiseData, td \in LoadTempData,
          fr \in {NotStored, Stored(EarlierRecommendations)} :
         /\ localStorage =
              [lightingPreference |-> l, spaceUsagePreference |-> s,
               temperaturePreference |-> t,
               lightProcessedData |-> ld, noiseProcessedData |-> nd,
               temperatureProcessedData |-> td, finalRecommendations |-> fr]
         /\ pageData = [light |-> ld, noise |-> nd, temperature |-> td]
         /\ promises = [light |-> FirstState(ld, l), noise |-> FirstState(nd, s),
                        feels |-> "pending"]
    /\ csvFiles \in [light : LoadLightData, noise : LoadNoiseData,
                     temperature : LoadTempData]
    /\ allPromise = "pending"
    /\ location = "loading.html"
    /\ clock = 0 /\ timerDue = 0
    /\ pc = "idle" /\ RecIdle /\ ScoreIdle /\ ParseIdle /\ FeelIdle /\ RestIdle

\* fetch('samba_lights.csv') answers OK: parse, keep, store.
LightFetchOk ==
    /\ promises.light = "pending"
    /\ pageData' = [pageData EXCEPT !.light = csvFiles.light]
    /\ localStorage' = [localStorage EXCEPT !.lightProcessedData = csvFiles.light]
    /\ promises' = [promises EXCEPT !.light = "fulfilled"]
    /\ UNCHANGED <<csvFiles, allPromise, location, clock, timerDue,
                 pc, recVars, scoreVars, parseVars, feelVars, restVars>>

\* The fetch fails, or answers with a status that is not OK.
LightFetchFail ==
    /\ promises.light = "pending"
    /\ promises' = [promises EXCEPT !.light = "rejected"]
    /\ UNCHANGED <<localStorage, csvFiles, pageData, allPromise, location,
                   clock, timerDue>>
    /\ UNCHANGED <<pc, recVars, scoreVars, parseVars, feelVars, restVars>>

NoiseFetchOk ==
    /\ promises.noise = "pending"
    /\ pageData' = [pageData EXCEPT !.noise = csvFiles.noise]
    /\ localStorage' = [localStorage EXCEPT !.noiseProcessedData = csvFiles.noise]
    /\ promises' = [promises EXCEPT !.noise = "fulfilled"]
    /\ UNCHANGED <<csvFiles, allPromise, location, clock, timerDue,
                 pc, recVars, scoreVars, parseVars, feelVars, restVars>>

NoiseFetchFail ==
    /\ promises.noise = "pending"
    /\ promises' = [promises EXCEPT !.noise = "rejected"]
    /\ UNCHANGED <<localStorage, csvFiles, pageData, allPromise, location,
                   clock, timerDue>>
    /\ UNCHANGED <<pc, recVars, scoreVars, parseVars, feelVars, restVars>>

\* fetch('ta_Feels_Like_Temperature.csv') answers OK: the temperature CSV is
\* fetched next when there is a temperature preference and no stored data.
FeelsLikeFetchOk ==
    /\ promises.feels = "pending"
    /\ promises' = [promises EXCEPT !.feels =
                      IF Len(pageData.temperature) = 0
                         /\ localStorage.temperaturePreference # Null
                      THEN "pending-temperature" ELSE "fulfilled"]
    /\ UNCHANGED <<localStorage, csvFiles, pageData, allPromise, location,
                   clock, timerDue>>
    /\ UNCHANGED <<pc, recVars, scoreVars, parseVars, feelVars, restVars>>

FeelsLikeFetchFail ==
    /\ promises.feels = "pending"
    /\ promises' = [promises EXCEPT !.feels = "rejected"]
    /\ UNCHANGED <<localStorage, csvFiles, pageData, allPromise, location,
                   clock, timerDue>>
    /\ UNCHANGED <<pc, recVars, scoreVars, parseVars, feelVars, restVars>>

TemperatureFetchOk ==
    /\ promises.feels = "pending-temperature"
    /\ pageData' = [pageData EXCEPT !.temperature = csvFiles.temperature]
    /\ localStorage' =
         [localStorage EXCEPT !.temperatureProcessedData = csvFiles.temperature]
    /\ promises' = [promises EXCEPT !.feels = "fulfilled"]
    /\ UNCHANGED <<csvFiles, allPromise, location, clock, timerDue,
                 pc, recVars, scoreVars, parseVars, feelVars, restVars>>

TemperatureFetchFail ==
    /\ promises.feels = "pending-temperature"
    /\ promises' = [promises EXCEPT !.feels = "rejected"]
    /\ UNCHANGED <<localStorage, csvFiles, pageData, allPromise, location,
                   clock, timerDue>>
    /\ UNCHANGED <<pc, recVars, scoreVars, parseVars, feelVars, restVars>>

\* Promise.all rejects as soon as one of its promises has rejected.
AllReject ==
    /\ allPromise = "pending"
    /\ \E k \in DOMAIN promises : promises[k] = "rejected"
    /\ allPromise' = "rejected"
    /\ UNCHANGED <<localStorage, csvFiles, pageData, promises, location,
                   clock, timerDue>>
    /\ UNCHANGED <<pc, recVars, scoreVars, parseVars, feelVars, restVars>>

hasAnyZoneData ==
    \/ Len(pageData.light) > 0 \/ Len(pageData.noise) > 0
    \/ Len(pageData.temperature) > 0

AnyPreference ==
    \/ localStorage.lightingPreference # Null
    \/ localStorage.spaceUsagePreference # Null
    \/ localStorage.temperaturePreference # Null

\* The .then handler of Promise.all, once every promise is fulfilled: it
\* throws when no dataset has a row although a preference is selected, and
\* otherwise computes, stores and arms the timer of the navigation.
ThenHandler ==
    /\ allPromise = "pending"
    /\ \A k \in DOMAIN promises : promises[k] = "fulfilled"
    /\ IF ~hasAnyZoneData /\ AnyPreference
       THEN /\ allPromise' = "rejected"
            /\ UNCHANGED <<localStorage, timerDue>>
       ELSE /\ allPromise' = "timer"
            /\ timerDue' = clock + TimerDelay(clock)
            /\ localStorage' =
                 [localStorage EXCEPT !.finalRecommendations =
                     Stored(JsonRoundTrip(calculateFinalRecommendations(
                         localStorage.lightingPreference,
                         localStorage.spaceUsagePreference,
                         localStorage.temperaturePreference, pageData)))]
    /\ UNCHANGED <<csvFiles, pageData, promises, location, clock,
                 pc, recVars, scoreVars, parseVars, feelVars, restVars>>

\* The .catch handler: the error is shown, nothing else happens.
CatchHandler ==
    /\ allPromise = "rejected"
    /\ allPromise' = "error shown"
    /\ UNCHANGED <<localStorage, csvFiles, pageData, promises, location,
                   clock, timerDue>>
    /\ UNCHANGED <<pc, recVars, scoreVars, parseVars, feelVars, restVars>>

\* The timer fires, at its due time or later: window.location.href =
\* 'results.html'.
Navigate ==
    /\ allPromise = "timer"
    /\ clock >= timerDue
    /\ allPromise' = "navigated"
    /\ location' = "results.html"
    /\ UNCHANGED <<localStorage, csvFiles, pageData, promises, clock, timerDue>>
    /\ UNCHANGED <<pc, recVars, scoreVars, parseVars, feelVars, restVars>>

\* Time passes while the page is loading.
Tick ==
    /\ allPromise \in {"pending", "rejected", "timer"}
    /\ \E d \in TickSteps :
          /\ clock + d <= MaxClock
          /\ clock' = clock + d
    /\ UNCHANGED <<localStorage, csvFiles, pageData, promises, allPromise,
                   location, timerDue>>
    /\ UNCHANGED <<pc, recVars, scoreVars, parseVars, feelVars, restVars>>

\* The pages that show the recommendations: results, zone details (with
\* findAlternatives and bookSpace) and booking confirmation.
ReaderPages ==
    {"results.html", "zone-details.html", "booking-confirmation.html"}

\* OpenPage that leaves no recommendations behind.
OpenPageConsuming ==
    /\ location \in ReaderPages
    /\ \E page \in ReaderPages \ {location} : location' = page
    /\ localStorage' = [localStorage EXCEPT !.finalRecommendations = NotStored]
    /\ UNCHANGED <<csvFiles, pageData, promises, allPromise, clock, timerDue>>
    /\ UNCHANGED <<pc, recVars, scoreVars, parseVars, feelVars, restVars>>

\* One of these pages is left for another: each reads finalRecommendations
\* with getItem and JSON.parse, and shows it.
OpenPage ==
    /\ location \in ReaderPages
    /\ \E page \in ReaderPages \ {location} : location' = page
    /\ UNCHANGED <<localStorage, csvFiles, pageData, promises, allPromise,
                   clock, timerDue>>
    /\ UNCHANGED <<pc, recVars, scoreVars, parseVars, feelVars, restVars>>

\* The quiz is started again (index.html?start=new) from a page that shows
\* the recommendations or from the error of the loading page: the first
\* quiz page removes the preferences, the datasets and finalRecommendations.
RestartQuiz ==
    /\ location \in ReaderPages \/ allPromise = "error shown"
    /\ location # "index.html?start=new"
    /\ location' = "index.html?start=new"
    /\ localStorage' =
         [lightingPreference |-> Null, spaceUsagePreference |-> Null,
          temperaturePreference |-> Null,
          lightProcessedData |-> <<>>, noiseProcessedData |-> <<>>,
          temperatureProcessedData |-> <<>>, finalRecommendations |-> NotStored]
    /\ UNCHANGED <<csvFiles, pageData, promises, allPromise, clock, timerDue>>
    /\ UNCHANGED <<pc, recVars, scoreVars, parseVars, feelVars, restVars>>

NextLoad ==
    \/ LightFetchOk \/ LightFetchFail
    \/ NoiseFetchOk \/ NoiseFetchFail
    \/ FeelsLikeFetchOk \/ FeelsLikeFetchFail
    \/ TemperatureFetchOk \/ TemperatureFetchFail
    \/ AllReject \/ ThenHandler \/ CatchHandler \/ Navigate \/ Tick
    \/ OpenPage \/ RestartQuiz

SpecLoad == InitLoad /\ [][NextLoad]_vars

\* The run is over: either the results page was opened or the error is shown.
RunOver == allPromise \in {"navigated", "error shown"}

NoFetchFailed == \A k \in DOMAIN promises : promises[k] # "rejected"

\* C9: when no dataset has any zone, the run still ends with 3 placeholder
\* zones written to finalRecommendations and not with an error, also with
\* preferences selected.
C9_NoDataStillPersists ==
    RunOver /\ NoFetchFailed /\ ~hasAnyZoneData =>
        /\ allPromise = "navigated"
        /\ localStorage.finalRecommendations.set
        /\ Len(localStorage.finalRecommendations.value) = 3
        /\ \A i \in 1..3 :
             IsPlaceholderId(localStorage.finalRecommendations.value[i].zoneId)

\* C10: a failed fetch never stops the run: recommendations are still
\* computed from the other datasets and written to finalRecommendations.
C10_FailedFetchStillPersists ==
    RunOver /\ ~NoFetchFailed =>
        /\ allPromise = "navigated"
        /\ localStorage.finalRecommendations.set
        /\ localStorage.finalRecommendations.value # EarlierRecommendations

\* The samba_TA.csv fetch is in flight; the feels-like fetch has answered.
TemperatureFetchInFlight == promises.feels = "pending-temperature"
FeelsLikeAnswered == promises.feels # "pending"

\* C23 as stated: the CSV fetches of the page are issued together, none
\* waiting for the answer of another, so samba_TA.csv is never fetched once
\* ta_Feels_Like_Temperature.csv has answered.
C23_NoFetchWaitsForAnother ==
    TemperatureFetchInFlight => ~FeelsLikeAnswered

\* The list this run of the loading page computes.
ThisRunRecommendations ==
    JsonRoundTrip(calculateFinalRecommendations(
        localStorage.lightingPreference, localStorage.spaceUsagePreference,
        localStorage.temperaturePreference, pageData))

RunFailed == allPromise \in {"rejected", "error shown"}

\* C24: the loading page is left for results.html only once this run has
\* written finalRecommendations and minLoadingTime has passed since the page
\* started; a run that fails never leaves the page, and finalRecommendations
\* changes in no step of the loading page but the one that writes this run's
\* list.
C24_NavigateAfterWriteAndGate ==
    [][ /\ location = "loading.html" /\ location' = "results.html" =>
            /\ localStorage.finalRecommendations = Stored(ThisRunRecommendations)
            /\ clock >= minLoadingTime
        /\ RunFailed => RunFailed' /\ location' # "results.html"
        /\ /\ location' = "loading.html"
           /\ localStorage'.finalRecommendations
                  # localStorage.finalRecommendations
           => /\ ~RunFailed'
              /\ localStorage'.finalRecommendations
                     = Stored(ThisRunRecommendations)
      ]_vars

\* C24 happens: the data was there after 1000 ms and the results page is
\* open, with this run's list in place of the earlier one.
C24_Witness ==
    /\ location = "results.html"
    /\ timerDue = minLoadingTime /\ clock >= minLoadingTime
    /\ localStorage.finalRecommendations = Stored(ThisRunRecommendations)
    /\ ThisRunRecommendations # EarlierRecommendations
    /\ hasAnyZoneData

\* C25: the step that calls calculateFinalRecommendations leaves the datasets
\* and every storage key but finalRecommendations as they are;
\* finalRecommendations is given a value in that step of the loading page
\* only; going from one to another of the results, zone-details and
\* booking-confirmation pages changes nothing in storage.
C25_OnlyLoadingPageWrites ==
    [][ /\ (/\ allPromise = "pending" /\ allPromise' # "pending"
             /\ \A k \in DOMAIN promises : promises[k] = "fulfilled") =>
              /\ pageData' = pageData
              /\ \A key \in DOMAIN localStorage \ {"finalRecommendations"} :
                     localStorage'[key] = localStorage[key]
        /\ /\ localStorage'.finalRecommendations.set
           /\ localStorage'.finalRecommendations
                  # localStorage.finalRecommendations
           => location = "loading.html" /\ allPromise' = "timer"
        /\ location \in ReaderPages /\ location' \in ReaderPages =>
              localStorage' = localStorage
      ]_vars

\* C25 happens: the booking confirmation is open and this run's list is in
\* storage as the loading page wrote it.
C25_Witness ==
    /\ location = "booking-confirmation.html"
    /\ hasAnyZoneData
    /\ localStorage.finalRecommendations = Stored(ThisRunRecommendations)

-----------------------------------------------------------------------------
(* The CSV parsers.  split(/\r\n|\n/) and split(',') cut a text into the   *)
(* lines and fields it is given by here; what the code does to a field     *)
(* (trim, toLowerCase, parseFloat, parseInt) is given for the fields the   *)
(* texts of the specifications below are made of.                          *)

\* field.trim(), for the fields written with blanks around them.
Trimmed == (" Zones" :> "Zones" @@ " 8 " :> "8" @@ " " :> "")
trim(field) == IF field \in DOMAIN Trimmed THEN Trimmed[field] ELSE field

\* field.toLowerCase(), for the fields with capitals.
LowerCased ==
    ( "Hour" :> "hour" @@ "HOUR" :> "hour" @@ "Zones" :> "zones"
   @@ "Zone" :> "zone" @@ "Time" :> "time" @@ "Morning" :> "morning"
   @@ "Night" :> "night" @@ "Infinity" :> "infinity"
   @@ "-Infinity" :> "-infinity" @@ "Noise export" :> "noise export" )
toLowerCase(field) ==
    IF field \in DOMAIN LowerCased THEN LowerCased[field] ELSE field

\* The fields that start with a decimal literal, and its value in tenths.
DecimalPrefix ==
    ( "8" :> 80 @@ "20" :> 200 @@ "26" :> 260 @@ "-1" :> -10
   @@ "7" :> 70 @@ "12" :> 120 @@ "18" :> 180 )

\* parseFloat(field): the leading decimal literal or Infinity, else NaN.
parseFloat(field) ==
    IF field \in DOMAIN DecimalPrefix THEN Num(DecimalPrefix[field])
    ELSE IF field = "Infinity" THEN PosInfinity
    ELSE IF field = "-Infinity" THEN NegInfinity
    ELSE NaN

\* parseInt(field): the leading integer, else NaN ('Infinity' is NaN here).
parseInt(field) ==
    IF field \in DOMAIN DecimalPrefix
    THEN [kind |-> "number", val |-> DecimalPrefix[field] \div 10]
    ELSE NaN

\* isNaN(hour) || hour < 0 || hour > 23, negated.
IsHour(hour) == hour.kind = "number" /\ hour.val >= 0 /\ hour.val <= 23

\* a + b on numbers that may be infinite or NaN.
Plus(a, b) ==
    IF a.kind = "NaN" \/ b.kind = "NaN" THEN NaN
    ELSE IF a.kind = "number" /\ b.kind = "number" THEN Num(a.val + b.val)
    ELSE IF a.kind = "number" THEN b
    ELSE IF b.kind = "number" \/ a.kind = b.kind THEN a
    ELSE NaN

RECURSIVE Sum(_)
\* The running sum of a list of numbers, from 0.
Sum(list) ==
    IF list = <<>> THEN Num(0)
    ELSE Plus(Sum(SubSeq(list, 1, Len(list) - 1)), list[Len(list)])

\* value * weight for a positive weight.
Scaled(value, weight) ==
    IF value.kind = "number" THEN Num(value.val * weight) ELSE value

\* n / d rounded to the nearest integer, a half going up in magnitude (d > 0).
RoundHalfUp(n, d) ==
    IF n >= 0 THEN (2 * n + d) \div (2 * d) ELSE -((2 * (-n) + d) \div (2 * d))

\* RoundedLux with Math.floor for Math.round.
FlooredLux(weightedSum, totalWeight) ==
    IF weightedSum.kind = "number"
    THEN Num(10 * (weightedSum.val \div (10 * totalWeight)))
    ELSE weightedSum

\* Math.round(weightedSum / totalWeight), in tenths: the sum is in tenths
\* times tenths of weight, the weight in tenths.
RoundedLux(weightedSum, totalWeight) ==
    IF weightedSum.kind = "number"
    THEN Num(10 * ((2 * weightedSum.val + 10 * totalWeight)
                       \div (2 * 10 * totalWeight)))
    ELSE weightedSum

\* OneDecimal that cuts the digits after the first decimal.
OneDecimalCut(sum, count) ==
    IF sum.kind = "number" THEN Num(sum.val \div count) ELSE sum

\* parseFloat((sum / count).toFixed(1)), in tenths.
OneDecimal(sum, count) ==
    IF sum.kind = "number" THEN Num(RoundHalfUp(sum.val, count)) ELSE sum

\* A line that holds nothing but blanks.
IsBlankLine(line) == Len(line) = 1 /\ trim(line[1]) = ""

RECURSIVE DropBlankEnds(_)
DropBlankEnds(lines) ==
    IF lines = <<>> THEN <<>>
    ELSE IF IsBlankLine(Head(lines)) THEN DropBlankEnds(Tail(lines))
    ELSE IF IsBlankLine(lines[Len(lines)])
    THEN DropBlankEnds(SubSeq(lines, 1, Len(lines) - 1))
    ELSE lines

\* csvString.trim().split(/\r\n|\n/): the blank lines at both ends go, and
\* a text left empty is one empty line.
SplitLines(text) ==
    LET kept == DropBlankEnds(text.lines)
    IN  IF kept = <<>> THEN << <<"">> >> ELSE kept

\* line.split(',').map(v => v.trim())
Fields(line) == [i \in 1..Len(line) |-> trim(line[i])]

\* list.indexOf(x), counted from 1; 0 when x is not in the list.
IndexOf(list, x) ==
    IF \E i \in 1..Len(list) : list[i] = x
    THEN CHOOSE i \in 1..Len(list) :
             list[i] = x /\ \A j \in 1..(i - 1) : list[j] # x
    ELSE 0

RECURSIVE MatchingRowsUntilMismatch(_, _)
\* MatchingRows that gives up at the first row of another field count.
MatchingRowsUntilMismatch(rows, headers) ==
    IF rows = <<>> \/ Len(Head(rows)) # Len(headers) THEN <<>>
    ELSE <<Head(rows)>> \o MatchingRowsUntilMismatch(Tail(rows), headers)

\* if (values.length !== headers.length) continue: the rows that go on.
MatchingRows(rows, headers) ==
    SelectSeq(rows, LAMBDA values : Len(values) = Len(headers))

\* try { ... } catch (error) { return []; }
TryCatch(outcome) == IF outcome.threw THEN Returned(<<>>) ELSE outcome

\* A field holds a number: rawValue.trim() !== "" && !isNaN(numericValue).
IsNumeric(field) == trim(field) # "" /\ parseFloat(field).kind # "NaN"

\* SeriesValue that leaves out the null.
SeriesValueNoNull(field) == parseFloat(field)

\* The timeSeries entry of a field: the number, or null.
SeriesValue(field) == IF IsNumeric(field) THEN parseFloat(field) ELSE JsonNull

\* officeHoursContribution of a period, in tenths; 0 without a config entry.
timePeriodConfig ==
    ( "Afternoon" :> 4 @@ "Early Morning" :> 1 @@ "Evening" :> 1
   @@ "Morning" :> 4 @@ "Night" :> 0 @@ "Late evening" :> 0 )
officeHoursContribution(timeColumn) ==
    IF timeColumn \in DOMAIN timePeriodConfig THEN timePeriodConfig[timeColumn]
    ELSE 0

\* The reading processDataWithDescriptiveTimes makes of one accepted row.
DescriptiveReading(headers, zoneColumnIndex, values, dataType) ==
    LET timeColumnAt ==
            SelectSeq([i \in 1..Len(headers) |-> i],
                      LAMBDA i : i # zoneColumnIndex /\ headers[i] # "")
        timeColumns  == [k \in 1..Len(timeColumnAt) |-> headers[timeColumnAt[k]]]
        rawValue(timeColumn) == values[IndexOf(headers, timeColumn)]
        weighted ==
            SelectSeq(timeColumns,
                      LAMBDA c : IsNumeric(rawValue(c))
                                     /\ officeHoursContribution(c) > 0)
        weightedSum ==
            Sum([k \in 1..Len(weighted) |->
                    Scaled(parseFloat(rawValue(weighted[k])),
                           officeHoursContribution(weighted[k]))])
        totalWeight ==
            Sum([k \in 1..Len(weighted) |->
                    Num(officeHoursContribution(weighted[k]))]).val
    IN  [Zones |-> values[zoneColumnIndex],
         timeSeries |->
             [c \in {timeColumns[k] : k \in 1..Len(timeColumns)} |->
                 SeriesValue(rawValue(c))],
         average |->
             IF dataType # "Light" THEN Undefined
             ELSE IF totalWeight > 0 THEN RoundedLux(weightedSum, totalWeight)
             ELSE NA]

\* The body of the try block of processDataWithDescriptiveTimes.
DescriptiveTimesBody(csvString, dataType) ==
    IF ~csvString.isText THEN Thrown
    ELSE
      LET lines == SplitLines(csvString)
          headers == Fields(lines[1])
          zoneColumnIndex == IndexOf(headers, "Zones")
          rows == [i \in 1..(Len(lines) - 1) |-> Fields(lines[i + 1])]
          accepted ==
              SelectSeq(MatchingRows(rows, headers),
                        LAMBDA values : values[zoneColumnIndex] # "")
      IN  IF Len(lines) < 2 THEN Returned(<<>>)
          ELSE IF zoneColumnIndex = 0 THEN Returned(<<>>)
          ELSE Returned([k \in 1..Len(accepted) |->
                   DescriptiveReading(headers, zoneColumnIndex, accepted[k],
                                      dataType)])

processDataWithDescriptiveTimes(csvString, zoneColumnNameUnused, dataType) ==
    TryCatch(DescriptiveTimesBody(csvString, dataType))

processLightData(csvString) ==
    TryCatch(processDataWithDescriptiveTimes(csvString, "Zones", "Light"))

\* !csvString: no text, or the text of no character, which is one line of
\* one empty field.
IsFalsy(csvString) == ~csvString.isText \/ csvString.lines = << <<"">> >>

\* The reading processZoneRowHourlyData makes of one accepted row.
ZoneRowReading(headers, currentRowValues, dataType) ==
    LET hourHeaders == Tail(headers)
        dataValues  == Tail(currentRowValues)
        validAt ==
            SelectSeq([i \in 1..Len(hourHeaders) |-> i],
                      LAMBDA i : IsHour(parseInt(hourHeaders[i])))
        \* a later column of the same name overwrites an earlier one
        lastAt(hourStr) ==
            CHOOSE i \in 1..Len(hourHeaders) :
                /\ hourHeaders[i] = hourStr
                /\ \A j \in (i + 1)..Len(hourHeaders) : hourHeaders[j] # hourStr
        officeAt ==
            SelectSeq(validAt,
                      LAMBDA i : /\ IsNumeric(dataValues[i])
                                 /\ parseInt(hourHeaders[i]).val >= 8
                                 /\ parseInt(hourHeaders[i]).val <= 18)
        officeHoursSum ==
            Sum([k \in 1..Len(officeAt) |-> parseFloat(dataValues[officeAt[k]])])
        officeHoursCount == Len(officeAt)
        average == IF officeHoursCount > 0
                   THEN OneDecimal(officeHoursSum, officeHoursCount) ELSE NA
    IN  [Zones |-> currentRowValues[1],
         timeSeries |->
             [hourStr \in {hourHeaders[validAt[k]] : k \in 1..Len(validAt)} |->
                 SeriesValue(dataValues[lastAt(hourStr)])],
         average |-> IF dataType = "Temperature" THEN average ELSE Undefined]

\* The rows the loop of processZoneRowHourlyData makes readings of: all the
\* accepted ones, or with a target zone the first of that zone.
ZoneRowTargets(accepted, targetZoneId) ==
    IF targetZoneId = Null THEN accepted
    ELSE LET own == SelectSeq(accepted, LAMBDA values : values[1] = targetZoneId)
         IN  SubSeq(own, 1, Min(1, Len(own)))

processZoneRowHourlyData(csvString, targetZoneId, dataType) ==
    IF IsFalsy(csvString) THEN Returned(<<>>)
    ELSE
      LET lines == SplitLines(csvString)
          headers == Fields(lines[1])
          rows == [i \in 1..(Len(lines) - 1) |-> Fields(lines[i + 1])]
          accepted ==
              ZoneRowTargets(
                  SelectSeq(MatchingRows(rows, headers),
                            LAMBDA values : values[1] # ""),
                  targetZoneId)
      IN  TryCatch(
            IF Len(lines) < 2 THEN Returned(<<>>)
            ELSE IF Len(headers) - 1 = 0 THEN Returned(<<>>)
            ELSE Returned([k \in 1..Len(accepted) |->
                     ZoneRowReading(headers, accepted[k], dataType)]))

\* The keys that are array indices, which Object.keys lists first and in
\* ascending order, with their value.
ArrayIndex == ("8" :> 8 @@ "20" :> 20 @@ "26" :> 26)

RECURSIVE Ascending(_)
\* The array-index keys of a set, in ascending order.
Ascending(keys) ==
    IF keys = {} THEN <<>>
    ELSE LET least == CHOOSE k \in keys :
                          \A other \in keys : ArrayIndex[k] <= ArrayIndex[other]
         IN  <<least>> \o Ascending(keys \ {least})

\* Object.keys(allZoneData) for the keys created in the order of zoneColumns.
ObjectKeys(zoneColumns) ==
    LET created == Unique(zoneColumns, {})
    IN  Ascending({created[k] : k \in 1..Len(created)} \cap DOMAIN ArrayIndex)
            \o SelectSeq(created, LAMBDA name : name \notin DOMAIN ArrayIndex)

\* The entry of the processed list for one zone column.
ZoneColumnReading(headers, hourColumnIndex, zoneColumns, rows, zoneName, dataType) ==
    LET zoneIndexInHeader == IndexOf(headers, zoneName)
        \* the column is gone through once for each time its name is listed
        times == Len(SelectSeq(zoneColumns, LAMBDA name : name = zoneName))
        hourOf(values) == parseInt(values[hourColumnIndex])
        hours == {hourOf(rows[r]).val : r \in 1..Len(rows)}
        lastRowOf(hour) ==
            CHOOSE r \in 1..Len(rows) :
                /\ hourOf(rows[r]).val = hour
                /\ \A later \in (r + 1)..Len(rows) : hourOf(rows[later]).val # hour
        officeRows ==
            SelectSeq(rows, LAMBDA values :
                /\ IsNumeric(values[zoneIndexInHeader])
                /\ hourOf(values).val >= 8 /\ hourOf(values).val <= 18)
        once == Sum([k \in 1..Len(officeRows) |->
                        parseFloat(officeRows[k][zoneIndexInHeader])])
        officeHoursSum == Sum([t \in 1..times |-> once])
        officeHoursCount == times * Len(officeRows)
        average == IF officeHoursCount > 0
                   THEN OneDecimal(officeHoursSum, officeHoursCount) ELSE NA
    IN  [Zones |-> zoneName,
         timeSeries |->
             [key \in {ToString(hour) : hour \in hours} |->
                 LET hour == CHOOSE h \in hours : ToString(h) = key
                 IN  SeriesValue(rows[lastRowOf(hour)][zoneIndexInHeader])],
         average |-> IF dataType \in {"Noise", "Temperature"} THEN average
                     ELSE Undefined]

\* HeaderRowIndex that looks at every line.
HeaderRowIndexAnyLine(lines) ==
    LET isHeader(i) ==
            /\ Len(lines[i]) > 1
            /\ \E c \in 1..Len(lines[i]) : toLowerCase(trim(lines[i][c])) = "hour"
        found == {i \in 1..Len(lines) : isHeader(i)}
    IN  IF found = {} THEN 0
        ELSE CHOOSE i \in found : \A j \in found : i <= j

\* The first of the first five lines with an 'hour' field and another field;
\* 0 when there is none.
HeaderRowIndex(lines) ==
    LET isHeader(i) ==
            /\ Len(lines[i]) > 1
            /\ \E c \in 1..Len(lines[i]) : toLowerCase(trim(lines[i][c])) = "hour"
        found == {i \in 1..Min(Len(lines), 5) : isHeader(i)}
    IN  IF found = {} THEN 0
        ELSE CHOOSE i \in found : \A j \in found : i <= j

processZoneColumnHourlyData(csvString, dataType) ==
    IF IsFalsy(csvString) THEN Returned(<<>>)
    ELSE
      LET lines == SplitLines(csvString)
          headerRowIndex == HeaderRowIndex(lines)
          headers == Fields(lines[headerRowIndex])
          hourColumnIndex ==
              IndexOf([i \in 1..Len(headers) |-> toLowerCase(headers[i])], "hour")
          zoneColumnAt ==
              SelectSeq([i \in 1..Len(headers) |-> i],
                        LAMBDA i : i # hourColumnIndex /\ headers[i] # "")
          zoneColumns == [k \in 1..Len(zoneColumnAt) |-> headers[zoneColumnAt[k]]]
          after == [i \in 1..(Len(lines) - headerRowIndex) |->
                       Fields(lines[headerRowIndex + i])]
          rows == SelectSeq(MatchingRows(after, headers), LAMBDA values :
                      IsHour(parseInt(values[hourColumnIndex])))
          keys == ObjectKeys(zoneColumns)
      IN  TryCatch(
            IF headerRowIndex = 0 THEN Returned(<<>>)
            ELSE IF Len(lines) < headerRowIndex + 1 THEN Returned(<<>>)
            ELSE IF hourColumnIndex = 0 THEN Returned(<<>>)
            ELSE IF Len(zoneColumns) = 0 THEN Returned(<<>>)
            ELSE Returned([k \in 1..Len(keys) |->
                     ZoneColumnReading(headers, hourColumnIndex, zoneColumns,
                                       rows, keys[k], dataType)]))

processTemperatureData(csvString) ==
    processZoneRowHourlyData(csvString, Null, "Temperature")

processNoiseData(csvString) == processZoneColumnHourlyData(csvString, "Noise")

-----------------------------------------------------------------------------
(* SpecParse: one call of processLightData, processTemperatureData or      *)
(* processNoiseData on a text of its layout: a header of one or two        *)
(* fields, data lines of one or two fields, and title lines in front.      *)

\* Data lines of a text that starts with its header.
MaxDataLines == 2

\* Title lines in front of the header; a text with title lines has at most
\* one data line.
MaxPreamble == 5

\* First lines: the header as the parser wants it, with the zone column
\* second and blanks around a name, with a period of weight 0, without the
\* 'Zones' column, with a nameless time column, without time column; and a
\* line of blanks, which makes the first data line the header.
LightHeaders ==
    { <<"Zones", "Morning">>, <<"Morning", " Zones">>, <<"Zones", "Night">>,
      <<"Zone", "Morning">>, <<"Zones", "">>, <<"Zones">>, <<" ">> }

\* Hour 8 is an office hour and hour 20 is not; 26 and -1 are no hours.
TemperatureHeaders ==
    { <<"Zone", "8">>, <<"Zone", " 8 ">>, <<"Zone", "20">>, <<"Zone", "26">>,
      <<"Zone", "-1">>, <<"Zone">>, <<" ">> }

\* The hour column first or second and in any case of letters; no zone
\* column, no hour column, a single field, a second column named 'Hour' too.
NoiseHeaders ==
    { <<"Hour", "8">>, <<"26", "HOUR">>, <<"Hour", "">>, <<"Time", "8">>,
      <<"Hour">>, <<"Hour", "Hour">>, <<" ">> }

HeadersOf(kind) ==
    IF kind = "Light" THEN LightHeaders
    ELSE IF kind = "Temperature" THEN TemperatureHeaders ELSE NoiseHeaders

\* The fields of the data lines: a zone id or lux value or hour, and the
\* values that are no reading.
FieldsOf(kind) ==
    IF kind = "Noise" THEN {"", "8", "20", "n/a"}
    ELSE {"", "8", "n/a", "Infinity"}

\* Lines of one or two fields.
LinesOver(fields) == [1..1 -> fields] \cup [1..2 -> fields]

TitleLine == <<"Noise export">>

InitParse ==
    /\ sensor \in {"Light", "Temperature", "Noise"}
    /\ \/ csv = NoText
       \/ \E header \in HeadersOf(sensor), p \in 0..MaxPreamble :
             \E k \in 0..(IF p = 0 THEN MaxDataLines ELSE 1) :
                \E rows \in [1..k -> LinesOver(FieldsOf(sensor))] :
                   csv = Text([i \in 1..p |-> TitleLine] \o <<header>> \o rows)
    /\ parserResult = Returned(<<>>) /\ pc = "start"
    /\ RecIdle /\ ScoreIdle /\ LoadIdle /\ FeelIdle /\ RestIdle

LightParse ==
    /\ pc = "start" /\ sensor = "Light"
    /\ parserResult' = processLightData(csv)
    /\ pc' = "done"
    /\ UNCHANGED <<csv, sensor, recVars, scoreVars, loadVars, feelVars, restVars>>

TemperatureParse ==
    /\ pc = "start" /\ sensor = "Temperature"
    /\ parserResult' = processTemperatureData(csv)
    /\ pc' = "done"
    /\ UNCHANGED <<csv, sensor, recVars, scoreVars, loadVars, feelVars, restVars>>

NoiseParse ==
    /\ pc = "start" /\ sensor = "Noise"
    /\ parserResult' = processNoiseData(csv)
    /\ pc' = "done"
    /\ UNCHANGED <<csv, sensor, recVars, scoreVars, loadVars, feelVars, restVars>>

NextParse == LightParse \/ TemperatureParse \/ NoiseParse

SpecParse == InitParse /\ [][NextParse]_vars

-----------------------------------------------------------------------------
(* Claims about one call of a parser *)

\* The lines the parser goes through, and the header it reads.
ParsedLines == SplitLines(csv)
HeaderLineAt ==
    IF sensor # "Noise" THEN 1
    ELSE IF \E i \in 1..Min(5, Len(ParsedLines)) :
                /\ Len(ParsedLines[i]) > 1
                /\ \E c \in 1..Len(ParsedLines[i]) :
                       toLowerCase(trim(ParsedLines[i][c])) = "hour"
    THEN CHOOSE i \in 1..Min(5, Len(ParsedLines)) :
             /\ Len(ParsedLines[i]) > 1
             /\ \E c \in 1..Len(ParsedLines[i]) :
                    toLowerCase(trim(ParsedLines[i][c])) = "hour"
             /\ \A j \in 1..(i - 1) :
                    ~ (/\ Len(ParsedLines[j]) > 1
                       /\ \E c \in 1..Len(ParsedLines[j]) :
                              toLowerCase(trim(ParsedLines[j][c])) = "hour")
    ELSE 0
HeaderFields ==
    IF HeaderLineAt = 0 THEN <<>> ELSE Fields(ParsedLines[HeaderLineAt])

\* The data lines, trimmed field by field.
DataLines ==
    IF HeaderLineAt = 0 THEN <<>>
    ELSE [i \in 1..(Len(ParsedLines) - HeaderLineAt) |->
             Fields(ParsedLines[HeaderLineAt + i])]

Readings == parserResult.value

\* C11 as stated: every reading a parser returns has an average that is a
\* finite number or 'N/A', never NaN, never undefined (and so never an
\* infinity).
C11_AverageFiniteOrNA ==
    Done => \A k \in 1..Len(Readings) :
                Readings[k].average.kind \in {"number", "N/A"}

\* The structural failures: fewer than 2 lines; the light text without the
\* 'Zones' header; the noise text without a header line with an 'hour' field
\* among the first 5 lines, or without a line after it.
StructuralFailure ==
    \/ Len(ParsedLines) < 2
    \/ sensor = "Light" /\ \A c \in 1..Len(HeaderFields) : HeaderFields[c] # "Zones"
    \/ sensor = "Noise" /\ HeaderLineAt = 0
    \/ sensor = "Noise" /\ HeaderLineAt = Len(ParsedLines)

\* C12: the three parsers never throw, and return the empty list on a
\* structural failure.
C12_NoThrowEmptyOnFailure ==
    Done => /\ ~parserResult.threw
            /\ csv.isText /\ StructuralFailure => Readings = <<>>

\* C12 happens: a noise text whose header is the sixth line, with a line of
\* data after it that fits the header.
C12_Witness ==
    /\ Done /\ sensor = "Noise" /\ csv.isText
    /\ Len(csv.lines) = 7
    /\ Fields(csv.lines[6]) = <<"Hour", "8">>
    /\ Fields(csv.lines[7]) = <<"8", "20">>
    /\ Readings = <<>>

\* The column of the zone id (light, temperature) and of the hour (noise).
ZoneFieldAt == IF sensor = "Light" THEN IndexOf(HeaderFields, "Zones") ELSE 1
HourFieldAt ==
    IndexOf([c \in 1..Len(HeaderFields) |-> toLowerCase(HeaderFields[c])], "hour")

\* A data line is well formed: it has the field count of the header, and a
\* zone id (light, temperature) or an hour from 0 to 23 (noise).
WellFormed(line) ==
    /\ Len(line) = Len(HeaderFields)
    /\ IF sensor = "Noise" THEN IsHour(parseInt(line[HourFieldAt]))
       ELSE line[ZoneFieldAt] # ""

WellFormedLines == SelectSeq(DataLines, WellFormed)

\* The text has the header its layout needs, and a line after it.
UsableHeader ==
    /\ csv.isText /\ ~StructuralFailure
    /\ sensor = "Temperature" => Len(HeaderFields) >= 2
    /\ sensor = "Noise" =>
           \E c \in 1..Len(HeaderFields) : c # HourFieldAt /\ HeaderFields[c] # ""

\* The timeSeries key of a well-formed line of the noise text.
HourKey(line) == ToString(parseInt(line[HourFieldAt]).val)

\* C19: a data line whose field count differs from the header's is skipped
\* and the parse goes on: every well-formed line is reflected in the result,
\* as a reading of its own in the order of the lines (light, temperature),
\* as an entry of every zone's timeSeries (noise).
C19_MismatchedRowSkipped ==
    Done /\ UsableHeader =>
        LET wellFormed == WellFormedLines
            zoneAt     == ZoneFieldAt
            hours      == {HourKey(wellFormed[k]) : k \in 1..Len(wellFormed)}
        IN  IF sensor = "Noise"
            THEN /\ Len(Readings) >= 1
                 /\ \A r \in 1..Len(Readings) :
                        hours \subseteq DOMAIN Readings[r].timeSeries
            ELSE /\ Len(Readings) = Len(wellFormed)
                 /\ \A k \in 1..Len(Readings) :
                        Readings[k].Zones = wellFormed[k][zoneAt]

\* C19 happens: a light text whose first data line is one field short and
\* whose second is well formed.
C19_Witness ==
    /\ Done /\ sensor = "Light" /\ UsableHeader
    /\ Len(DataLines) = 2 /\ Len(HeaderFields) = 2
    /\ Len(DataLines[1]) = 1 /\ WellFormed(DataLines[2])
    /\ Len(Readings) = 1 /\ Readings[1].Zones = DataLines[2][ZoneFieldAt]

\* The entry the claim gives a field: the number, or null when the field is
\* empty or not numeric.
ExpectedEntry(field) ==
    IF field # "" /\ parseFloat(field).kind # "NaN" THEN parseFloat(field)
    ELSE JsonNull

\* The time keys of the text: the named period columns, the hour columns
\* from 0 to 23, the hours of the well-formed hour lines.
RecognizedKeys ==
    IF sensor = "Light"
    THEN {HeaderFields[c] : c \in {c \in 1..Len(HeaderFields) :
                                      c # ZoneFieldAt /\ HeaderFields[c] # ""}}
    ELSE IF sensor = "Temperature"
    THEN {HeaderFields[c] : c \in {c \in 2..Len(HeaderFields) :
                                      IsHour(parseInt(HeaderFields[c]))}}
    ELSE {HourKey(WellFormedLines[k]) : k \in 1..Len(WellFormedLines)}

\* C20: the timeSeries of every returned reading has exactly the recognized
\* time keys of the text, each holding the number of a field of that zone
\* and key when the field is numeric and null when it is not.
C20_OneEntryPerTimeKey ==
    Done /\ Readings # <<>> =>
        LET headers    == HeaderFields
            wellFormed == WellFormedLines
            keys       == RecognizedKeys
            hourOf     == [i \in 1..Len(wellFormed) |->
                              IF sensor = "Noise" THEN HourKey(wellFormed[i])
                              ELSE ""]
        IN  \A k \in 1..Len(Readings) :
                LET series == Readings[k].timeSeries
                IN  /\ DOMAIN series = keys
                    /\ \A key \in keys :
                         IF sensor = "Noise"
                         THEN \E i \in 1..Len(wellFormed), c \in 1..Len(headers) :
                                  /\ hourOf[i] = key
                                  /\ headers[c] = Readings[k].Zones
                                  /\ series[key] = ExpectedEntry(wellFormed[i][c])
                         ELSE \E c \in 1..Len(headers) :
                                  /\ headers[c] = key
                                  /\ series[key] = ExpectedEntry(wellFormed[k][c])

\* C20 happens: a noise text with lines for hours 8 and 20, a number in one
\* and no number in the other.
C20_Witness ==
    /\ Done /\ sensor = "Noise"
    /\ \E k \in 1..Len(Readings) :
         /\ DOMAIN Readings[k].timeSeries = {"8", "20"}
         /\ Readings[k].timeSeries["8"] = Num(200)
         /\ Readings[k].timeSeries["20"] = JsonNull

-----------------------------------------------------------------------------
(* The feels-like lookup.  Ambient temperatures are in tenths of a degree, *)
(* feels-like temperatures in thousandths.                                 *)

\* The fields whose lower case contains 'ta', and those whose lower case
\* contains 'feels like'.
IncludesTa == {"ta", " TA ", "Data"}
IncludesFeelsLike == {"Feels Like Temperature", "feels like"}

\* field.trim().toLowerCase() of the header fields.
HeaderName ==
    ( "ta" :> "ta" @@ " TA " :> "ta" @@ "Data" :> "data"
   @@ "Feels Like Temperature" :> "feels like temperature"
   @@ "feels like" :> "feels like" @@ "Temp" :> "temp"
   @@ "Feels" :> "feels" @@ "Export" :> "export" )

\* The feels-like fields that start with a decimal literal, in thousandths.
FeelsLikeDecimal == ("19.456" :> 19456 @@ "23.5" :> 23500)

\* parseFloat(values[feelsLikeIndex])
parseFloatFeelsLike(field) ==
    IF field \in DOMAIN FeelsLikeDecimal THEN Num(FeelsLikeDecimal[field])
    ELSE IF field = "Infinity" THEN PosInfinity
    ELSE IF field = "-Infinity" THEN NegInfinity
    ELSE NaN

\* -a
Negated(a) ==
    IF a.kind = "number" THEN Num(-a.val)
    ELSE IF a.kind = "Infinity" THEN NegInfinity
    ELSE IF a.kind = "-Infinity" THEN PosInfinity
    ELSE a

\* a - b
Minus(a, b) == Plus(a, Negated(b))

\* Math.abs(a)
AbsValue(a) ==
    IF a.kind = "number" THEN Num(IF a.val < 0 THEN -a.val ELSE a.val)
    ELSE IF a.kind = "-Infinity" THEN PosInfinity
    ELSE a

\* a < b: false as soon as one side is NaN.
LessThan(a, b) ==
    /\ a.kind # "NaN" /\ b.kind # "NaN"
    /\ \/ a.kind = "-Infinity" /\ b.kind # "-Infinity"
       \/ a.kind = "number" /\ b.kind = "Infinity"
       \/ a.kind = "number" /\ b.kind = "number" /\ a.val < b.val

\* rows[i].toLowerCase().includes('ta') && ....includes('feels like')
IsFeelsLikeHeader(line) ==
    /\ \E i \in 1..Len(line) : line[i] \in IncludesTa
    /\ \E i \in 1..Len(line) : line[i] \in IncludesFeelsLike

\* The first of the first five rows that is a header, 0 when none is.
FeelsLikeHeaderRowIndex(rows) ==
    LET found == {i \in 1..Min(Len(rows), 5) : IsFeelsLikeHeader(rows[i])}
    IN  IF found = {} THEN 0
        ELSE CHOOSE i \in found : \A j \in found : i <= j

\* headers.findIndex(h => h.includes('feels like')), counted from 1.
FindFeelsLike(line) ==
    LET found == {i \in 1..Len(line) : line[i] \in IncludesFeelsLike}
    IN  IF found = {} THEN 0
        ELSE CHOOSE i \in found : \A j \in found : i <= j

RECURSIVE LookupRows(_, _, _)
\* The loop over the rows under the header: a row too short for both
\* columns is passed over, and so is one whose ta or feels-like is NaN.
LookupRows(rows, taIndex, feelsLikeIndex) ==
    IF rows = <<>> THEN <<>>
    ELSE LET values == Fields(Head(rows))
             rest   == LookupRows(Tail(rows), taIndex, feelsLikeIndex)
         IN  IF Len(values) < Max(taIndex, feelsLikeIndex) THEN rest
             ELSE LET ta        == parseFloat(values[taIndex])
                      feelsLike == parseFloatFeelsLike(values[feelsLikeIndex])
                  IN  IF ta.kind # "NaN" /\ feelsLike.kind # "NaN"
                      THEN <<[ta |-> ta, feelsLike |-> feelsLike]>> \o rest
                      ELSE rest

RECURSIVE SortByTa(_)
\* data.sort((a, b) => a.ta - b.ta): ascending and stable, two entries of
\* one ta (or of a difference that is NaN) keeping the order they had.
SortByTa(data) ==
    IF data = <<>> THEN <<>>
    ELSE LET n      == Len(data)
             sorted == SortByTa(SubSeq(data, 1, n - 1))
             last   == data[n]
             before == {i \in 1..(n - 1) : ~LessThan(last.ta, sorted[i].ta)}
             k      == Cardinality(before)
         IN  SubSeq(sorted, 1, k) \o <<last>> \o SubSeq(sorted, k + 1, n - 1)

processFeelsLikeLookup(csvString) ==
    LET rows           == SplitLines(csvString)
        headerRowIndex == FeelsLikeHeaderRowIndex(rows)
    IN  IF Len(rows) <= 1 THEN <<>>
        ELSE IF headerRowIndex = 0 THEN <<>>
        ELSE LET headers == [i \in 1..Len(rows[headerRowIndex]) |->
                                HeaderName[rows[headerRowIndex][i]]]
                 taIndex        == IndexOf(headers, "ta")
                 feelsLikeIndex == FindFeelsLike(rows[headerRowIndex])
             IN  IF taIndex = 0 \/ feelsLikeIndex = 0 THEN <<>>
                 ELSE SortByTa(LookupRows(
                          SubSeq(rows, headerRowIndex + 1, Len(rows)),
                          taIndex, feelsLikeIndex))

\* parseFloat(closest.feelsLike.toFixed(2))
TwoDecimals(feelsLike) ==
    IF feelsLike.kind = "number"
    THEN Num(10 * RoundHalfUp(feelsLike.val, 10))
    ELSE feelsLike

RECURSIVE ClosestLastOnTie(_, _)
\* Closest with <= for <: of two entries as close, the later one.
ClosestLastOnTie(feelsLikeLookupData, numAmbientTemp) ==
    LET n == Len(feelsLikeLookupData)
    IN  IF n = 1 THEN feelsLikeLookupData[1]
        ELSE LET prev == ClosestLastOnTie(
                             SubSeq(feelsLikeLookupData, 1, n - 1),
                             numAmbientTemp)
                 curr == feelsLikeLookupData[n]
             IN  IF ~LessThan(AbsValue(Minus(prev.ta, numAmbientTemp)),
                              AbsValue(Minus(curr.ta, numAmbientTemp)))
                 THEN curr ELSE prev

RECURSIVE Closest(_, _)
\* feelsLikeLookupData.reduce((prev, curr) => |curr.ta - t| < |prev.ta - t|
\* ? curr : prev), on a table that is not empty.
Closest(feelsLikeLookupData, numAmbientTemp) ==
    LET n == Len(feelsLikeLookupData)
    IN  IF n = 1 THEN feelsLikeLookupData[1]
        ELSE LET prev == Closest(SubSeq(feelsLikeLookupData, 1, n - 1),
                                 numAmbientTemp)
                 curr == feelsLikeLookupData[n]
             IN  IF LessThan(AbsValue(Minus(curr.ta, numAmbientTemp)),
                             AbsValue(Minus(prev.ta, numAmbientTemp)))
                 THEN curr ELSE prev

\* isNaN(parseFloat(ambientTemp)), negated, for what averageTemp can be: a
\* number (NaN and the infinities among them), 'N/A' or undefined.
ParsesToNumber(ambientTemp) ==
    ambientTemp.kind \in {"number", "Infinity", "-Infinity"}

getFeelsLikeTemperature(ambientTemp, feelsLikeLookupData) ==
    IF \/ feelsLikeLookupData = <<>>
       \/ ~ParsesToNumber(ambientTemp)
       \/ ambientTemp = NA
    THEN NA
    ELSE TwoDecimals(Closest(feelsLikeLookupData, ambientTemp).feelsLike)

-----------------------------------------------------------------------------
(* SpecFeels: the lookup table is built from one text, then asked once *)

MaxLookupRows == 3

TaFirstHeader   == <<"ta", "Feels Like Temperature">>
TaSecondHeader  == <<"feels like", " TA ">>
FeelsLikeHeaders ==
    {TaFirstHeader, TaSecondHeader,
     <<"Data", "Feels Like Temperature">>, <<"Temp", "Feels">>}

TaFields        == {"20", "26", "n/a"}
FeelsLikeFields == {"19.456", "23.5", ""}

\* The rows under a header, their two fields in the order of its columns,
\* and one row that stops after its first field.
LookupLines(header) ==
    IF header = TaSecondHeader
    THEN {<<f, t>> : f \in FeelsLikeFields, t \in TaFields} \cup {<<"23.5">>}
    ELSE {<<t, f>> : t \in TaFields, f \in FeelsLikeFields} \cup {<<"20">>}

FeelsLikeTitle == <<"Export">>

\* zoneTempFull?.averageTemp: an average in tenths, 'N/A', undefined, NaN
\* or Infinity.
AverageTemps == {Num(230), Num(215), NA, Undefined, NaN, PosInfinity}

InitFeels ==
    /\ \E header \in FeelsLikeHeaders, p \in 0..MaxPreamble :
         \E k \in 0..(IF p = 0 THEN MaxLookupRows ELSE 1) :
            \E rows \in [1..k -> LookupLines(header)] :
               feelsLikeCsv =
                   Text([i \in 1..p |-> FeelsLikeTitle] \o <<header>> \o rows)
    /\ currentAverageTemp \in AverageTemps
    /\ fLLookup = <<>> /\ feelsLikeTemp = NA /\ pc = "start"
    /\ RecIdle /\ ScoreIdle /\ LoadIdle /\ ParseIdle /\ RestIdle

BuildLookup ==
    /\ pc = "start"
    /\ fLLookup' = processFeelsLikeLookup(feelsLikeCsv)
    /\ pc' = "built"
    /\ UNCHANGED <<feelsLikeCsv, currentAverageTemp, feelsLikeTemp,
                   recVars, scoreVars, loadVars, parseVars, restVars>>

LookUp ==
    /\ pc = "built"
    /\ feelsLikeTemp' = getFeelsLikeTemperature(currentAverageTemp, fLLookup)
    /\ pc' = "done"
    /\ UNCHANGED <<feelsLikeCsv, currentAverageTemp, fLLookup,
                   recVars, scoreVars, loadVars, parseVars, restVars>>

NextFeels == BuildLookup \/ LookUp

SpecFeels == InitFeels /\ [][NextFeels]_vars

\* |table[i].ta - currentAverageTemp|
Distance(i) == AbsValue(Minus(fLLookup[i].ta, currentAverageTemp))

\* value is feelsLike to two decimals: a whole number of hundredths no
\* further than half a hundredth from it.
IsRoundedTo2(value, feelsLike) ==
    /\ value.kind = "number" /\ feelsLike.kind = "number"
    /\ value.val % 10 = 0
    /\ 2 * value.val - 2 * feelsLike.val \in -10..10

\* C13: getFeelsLikeTemperature returns 'N/A' when the table is empty or the
\* ambient input is 'N/A' or not a number; otherwise it returns, rounded to
\* two decimals, the feelsLike of the entry whose ta is nearest the input,
\* and of several entries as near the one that comes first in the table.
C13_NearestEntryFirstOnTie ==
    pc = "done" =>
        IF \/ fLLookup = <<>>
           \/ currentAverageTemp \in {NA, Undefined, NaN}
        THEN feelsLikeTemp = NA
        ELSE \E i \in 1..Len(fLLookup) :
                 /\ \A j \in 1..Len(fLLookup) :
                        ~LessThan(Distance(j), Distance(i))
                 /\ \A j \in 1..(i - 1) : LessThan(Distance(i), Distance(j))
                 /\ IsRoundedTo2(feelsLikeTemp, fLLookup[i].feelsLike)

\* Two entries as near the input, the CSV listing the nearer-to-the-top one
\* of the table second, and a feelsLike that rounding changes.
C13_Witness ==
    /\ pc = "done"
    /\ feelsLikeCsv.lines =
           <<TaFirstHeader, <<"26", "23.5">>, <<"20", "19.456">> >>
    /\ currentAverageTemp = Num(230)
    /\ Len(fLLookup) = 2
    /\ fLLookup[1].ta = Num(200) /\ fLLookup[2].ta = Num(260)
    /\ Distance(1) = Distance(2)
    /\ feelsLikeTemp = Num(19460)

-----------------------------------------------------------------------------
(* SpecLux: processLightData on a text of three period columns *)

MaxLuxRows == 1

\* 'Noon' has no entry in timePeriodConfig.
LuxHeaders ==
    { <<"Zones", "Morning", "Evening", "Night">>,
      <<"Zones", "Afternoon", "Early Morning", "Noon">>,
      <<"Zones", "Night", "Late evening", "Noon">> }

LuxFields == {"8", "20", "26", "", "n/a", "Infinity"}

\* The rows of a zone, and one row that stops after the zone id.
LuxLines ==
    {<<"8", a, b, c>> : a \in LuxFields, b \in LuxFields, c \in LuxFields}
        \cup {<<"8">>}

InitLux ==
    /\ \E header \in LuxHeaders, k \in 0..MaxLuxRows :
          \E rows \in [1..k -> LuxLines] :
             csv = Text(<<header>> \o rows \o << <<"20", "8", "20", "26">> >>)
    /\ sensor = "Light"
    /\ parserResult = Returned(<<>>) /\ pc = "start"
    /\ RecIdle /\ ScoreIdle /\ LoadIdle /\ FeelIdle /\ RestIdle

SpecLux == InitLux /\ [][LightParse]_vars

\* The weight the claim gives a period, in tenths.
ClaimedWeight(period) ==
    IF period \in {"Morning", "Afternoon"} THEN 4
    ELSE IF period \in {"Early Morning", "Evening"} THEN 1
    ELSE 0

\* The full rows of the text, in order: each gives one reading.
LuxRows == SelectSeq(DataLines, LAMBDA line : Len(line) = 4)

\* C21: averageLux is the rounded quotient of the sum of weight * value by
\* the sum of the weights, over the periods of the row with a numeric value
\* and a positive weight (Morning and Afternoon 0.4, Early Morning and Evening
\* 0.1, the others 0), and 'N/A' when there is no such period.
C21_WeightedAverageLux ==
    Done =>
        LET headers == HeaderFields
            rows    == LuxRows
        IN  /\ Len(Readings) = Len(rows)
            /\ \A k \in 1..Len(rows) :
                 LET Counts(c) ==
                         /\ parseFloat(rows[k][c]).kind # "NaN"
                         /\ ClaimedWeight(headers[c]) > 0
                     Weight(c) ==
                         IF Counts(c) THEN ClaimedWeight(headers[c]) ELSE 0
                     Term(c) ==
                         IF Counts(c) /\ parseFloat(rows[k][c]).kind = "number"
                         THEN ClaimedWeight(headers[c]) * parseFloat(rows[k][c]).val
                         ELSE 0
                     sum      == Term(2) + Term(3) + Term(4)
                     weights  == Weight(2) + Weight(3) + Weight(4)
                     infinite ==
                         \E c \in 2..4 :
                             Counts(c) /\ parseFloat(rows[k][c]) = PosInfinity
                     average  == Readings[k].average
                 IN  IF weights = 0 THEN average = NA
                     ELSE IF infinite THEN average = PosInfinity
                     ELSE /\ average.kind = "number"
                          /\ average.val % 10 = 0
                          \* average <= sum / weights + 1/2 < average + 1
                          /\ 2 * weights * average.val <= 2 * sum + 10 * weights
                          /\ 2 * sum + 10 * weights
                                 < 2 * weights * (average.val + 10)

\* C21 happens: Morning 20, Evening 8 and Night 26 give (8 + 0.8) / 0.5 =
\* 17.6, so 18, which is neither the mean of the three nor 17.
C21_Witness ==
    /\ Done
    /\ HeaderFields = <<"Zones", "Morning", "Evening", "Night">>
    /\ Len(LuxRows) = 2 /\ Len(Readings) = 2
    /\ LuxRows[1] = <<"8", "20", "8", "26">>
    /\ Readings[1].average = Num(180)
    /\ Readings[2].average = Num(100)

-----------------------------------------------------------------------------
(* SpecHourly: the same readings given to processZoneRowHourlyData as a    *)
(* line per zone and to processZoneColumnHourlyData as a line per hour     *)

MaxHourlyZones == 2

\* '8' is an array index for Object.keys, the others are not.
HourlyZoneNames == <<"B", "8", "A", "C">>

\* Hours 8, 12 and 18 are office hours, 7 and 20 are not, 26 is no hour.
HourLists ==
    { <<"8", "12", "18">>, <<"18", "7", "8">>, <<"12", "26", "20">> }

HourlyFields == {"7", "8", ""}

\* The text with a line per zone ...
ZoneRowText(hours, names, cells) ==
    Text(<< <<"Zone">> \o hours >>
             \o [z \in 1..Len(names) |-> <<names[z]>> \o cells[z]])

\* ... and the one with a line per hour.
ZoneColumnText(hours, names, cells) ==
    Text(<< <<"Hour">> \o names >>
             \o [h \in 1..Len(hours) |->
                    <<hours[h]>> \o [z \in 1..Len(names) |-> cells[z][h]]])

InitHourly ==
    /\ \E n \in 1..MaxHourlyZones, hours \in HourLists :
          \E cells \in [1..n -> [1..3 -> HourlyFields]] :
             /\ csv = ZoneRowText(hours, SubSeq(HourlyZoneNames, 1, n), cells)
             /\ columnCsv =
                    ZoneColumnText(hours, SubSeq(HourlyZoneNames, 1, n), cells)
    /\ sensor \in {"Temperature", "Noise"}
    /\ parserResult = Returned(<<>>) /\ columnResult = Returned(<<>>)
    /\ pc = "start"
    /\ RecIdle /\ ScoreIdle /\ LoadIdle /\ FeelIdle /\ AfterColumnIdle

ZoneRowParse ==
    /\ pc = "start"
    /\ parserResult' = processZoneRowHourlyData(csv, Null, "Temperature")
    /\ pc' = "rows"
    /\ UNCHANGED <<csv, sensor, columnVars, afterColumnVars,
                   recVars, scoreVars, loadVars, feelVars>>

ZoneColumnParse ==
    /\ pc = "rows"
    /\ columnResult' = processZoneColumnHourlyData(columnCsv, sensor)
    /\ pc' = "done"
    /\ UNCHANGED <<columnCsv, parseVars, afterColumnVars,
                   recVars, scoreVars, loadVars, feelVars>>

NextHourly == ZoneRowParse \/ ZoneColumnParse

SpecHourly == InitHourly /\ [][NextHourly]_vars

\* The readings given: the line of each zone in the zone-row text.
GivenHours == Tail(csv.lines[1])
GivenZones == Tail(csv.lines)

\* The reading the zone-column parser returns for a zone.
ColumnReadingOf(zoneName) ==
    LET list == columnResult.value
    IN  list[CHOOSE k \in 1..Len(list) : list[k].Zones = zoneName]

\* C22: for the same readings both parsers give a zone the same average: the
\* mean, to one decimal, of its numeric values at the hours 8 to 18, or
\* 'N/A' when it has none.
C22_SameAverageBothLayouts ==
    Done =>
        LET hours == GivenHours
            zones == GivenZones
            rowReadings == parserResult.value
        IN  /\ ~parserResult.threw /\ ~columnResult.threw
            /\ Len(rowReadings) = Len(zones)
            /\ Len(columnResult.value) = Len(zones)
            /\ \A z \in 1..Len(zones) :
                 LET Counts(h) ==
                         /\ zones[z][h + 1] \in {"7", "8"}
                         /\ hours[h] \in {"8", "12", "18"}
                     Term(h)  == IF ~Counts(h) THEN 0
                                 ELSE IF zones[z][h + 1] = "7" THEN 70 ELSE 80
                     Unit(h)  == IF Counts(h) THEN 1 ELSE 0
                     sum      == Term(1) + Term(2) + Term(3)
                     count    == Unit(1) + Unit(2) + Unit(3)
                     average  == rowReadings[z].average
                 IN  /\ rowReadings[z].Zones = zones[z][1]
                     /\ ColumnReadingOf(zones[z][1]).average = average
                     /\ IF count = 0 THEN average = NA
                        ELSE /\ average.kind = "number"
                             \* average <= sum / count + 0.05 < average + 0.1
                             /\ 2 * count * average.val <= 2 * sum + count
                             /\ 2 * sum + count < 2 * count * (average.val + 1)

\* C22 happens: zone B has 8, 8 and 7 at the hours 8, 12 and 18, and both
\* parsers give it 7.7; the zone-column parser lists zone '8' before it.
C22_Witness ==
    /\ Done /\ Len(GivenZones) = 2
    /\ GivenHours = <<"8", "12", "18">>
    /\ GivenZones[1] = <<"B", "8", "8", "7">>
    /\ parserResult.value[1].Zones = "B"
    /\ parserResult.value[1].average = Num(77)
    /\ columnResult.value[1].Zones = "8"
    /\ columnResult.value[2].average = Num(77)

-----------------------------------------------------------------------------
(* The duration predictions.  A timeSeries is a function from its keys to
   its values, or undefined for a zone without a reading; targets are in
   tenths like the values. *)

\* typeof value === 'number' && !isNaN(value): true of the infinities too.
IsNumberValue(value) == value.kind \in {"number", "Infinity", "-Infinity"}

\* value >= minP && value <= maxP, for finite minP and maxP.
InTargetRange(value, minP, maxP) ==
    value.kind = "number" /\ value.val >= minP /\ value.val <= maxP

\* !timeSeries || Object.keys(timeSeries).length === 0
NoSeries(timeSeries) == timeSeries = Undefined \/ DOMAIN timeSeries = {}

\* The periods counted, with the periods of no office hours among them.
ConsideredPeriodsAnyWeight(timeSeries) ==
    {periodName \in DOMAIN timeSeries : IsNumberValue(timeSeries[periodName])}

\* The periods predictIdealDuration counts in totalConsideredPeriods.
ConsideredPeriods(timeSeries) ==
    {periodName \in DOMAIN timeSeries :
        /\ periodName \in DOMAIN timePeriodConfig
        /\ timePeriodConfig[periodName] > 0
        /\ IsNumberValue(timeSeries[periodName])}

\* predictIdealDuration(timeSeries, minP, maxP, timePeriodConfig); the
\* configuration has numeric contributions, so the descriptive branch is
\* taken.  percentage = suitable / considered * 100 is exact for the at most
\* four periods of office hours, and is compared here as 100 * suitable
\* against 75 * considered and 50 * considered.
predictIdealDuration(timeSeries, minP, maxP) ==
    IF NoSeries(timeSeries) THEN "N/A (No time series data for duration)"
    ELSE
      LET considered == ConsideredPeriods(timeSeries)
          suitable   == {periodName \in considered :
                            InTargetRange(timeSeries[periodName], minP, maxP)}
          totalConsideredPeriods == Cardinality(considered)
          suitablePeriods        == Cardinality(suitable)
      IN  IF totalConsideredPeriods = 0 /\ DOMAIN timeSeries # {}
          THEN "Data available, but not for primary work hours for duration check"
          ELSE IF totalConsideredPeriods = 0
          THEN "N/A (No relevant time series data for duration)"
          ELSE IF suitablePeriods = totalConsideredPeriods
          THEN "Consistently throughout main periods"
          ELSE IF 100 * suitablePeriods >= 75 * totalConsideredPeriods
          THEN "Most of the main periods"
          ELSE IF 100 * suitablePeriods >= 50 * totalConsideredPeriods
          THEN "About half of the main periods"
          ELSE IF suitablePeriods > 0 THEN "Some of the main periods"
          ELSE "Infrequently during main periods"

\* The test of an hour in predictHourlyDuration, without the test on the value.
IsSuitableHourAnyValue(timeSeries, hour, minP, maxP) ==
    ToString(hour) \in DOMAIN timeSeries

\* hourKey = String(hour);
\* timeSeries.hasOwnProperty(hourKey) && timeSeries[hourKey] !== null &&
\* typeof timeSeries[hourKey] === 'number' && !isNaN(timeSeries[hourKey]),
\* and the value within the range.
IsSuitableHour(timeSeries, hour, minP, maxP) ==
    /\ ToString(hour) \in DOMAIN timeSeries
    /\ timeSeries[ToString(hour)] # JsonNull
    /\ IsNumberValue(timeSeries[ToString(hour)])
    /\ InTargetRange(timeSeries[ToString(hour)], minP, maxP)

\* The texts predictHourlyDuration returns, with the numbers they hold.
HourlyText(text, hours, startHour, endHour) ==
    [text |-> text, hours |-> hours, startHour |-> startHour,
     endHour |-> endHour]

\* predictHourlyDuration(timeSeries, minP, maxP, startHour, endHour,
\* intervalHours).
predictHourlyDuration(timeSeries, minP, maxP, startHour, endHour, intervalHours) ==
    IF NoSeries(timeSeries)
    THEN "N/A (No time series data for hourly duration)"
    ELSE
      LET loopHours == {hour \in startHour..endHour :
                           (hour - startHour) % intervalHours = 0}
          consideredHours == Cardinality(loopHours)
          suitableHours ==
              Cardinality({hour \in loopHours :
                              IsSuitableHour(timeSeries, hour, minP, maxP)})
      IN  IF consideredHours = 0
          THEN "N/A (No relevant hourly data for duration)"
          ELSE IF suitableHours = consideredHours
          THEN HourlyText("Consistently from", 0, startHour, endHour)
          ELSE IF suitableHours > 0
          THEN HourlyText("Approximately", suitableHours * intervalHours,
                          startHour, endHour)
          ELSE HourlyText("Not typically within range between", 0,
                          startHour, endHour)

-----------------------------------------------------------------------------
(* SpecDuration: one call of predictIdealDuration or predictHourlyDuration
   on a timeSeries as the parsers build them, with a target range of the
   thresholds *)

MaxChangedHours == 2

\* The values of a timeSeries: numbers, null for an unreadable field, and
\* Infinity, which parseFloat reads from the field 'Infinity'.
SeriesValues == {Num(1000), Num(3000), Num(234), Num(451), JsonNull, PosInfinity}

PeriodNames ==
    {"Morning", "Afternoon", "Evening", "Early Morning", "Night", "Noon"}

\* targetLightRange, targetNoiseRange and targetTemperatureRange.
TargetRanges ==
    {[min |-> t.min, max |-> t.max] :
        t \in { lightingThresholds["dim"], lightingThresholds["balanced"],
                noiseWorkTypeThresholds["focus-work"],
                temperatureThresholds["stable-comfortable"] }}

\* The default hours, and two shorter ranges.
HourRanges ==
    {[startHour |-> 8, endHour |-> 18], [startHour |-> 8, endHour |-> 10],
     [startHour |-> 9, endHour |-> 9]}

\* A reading at every hour from 7 to 19.
FullDaySeries(value) == [hourKey \in {ToString(h) : h \in 7..19} |-> value]

\* What may be wrong with the reading of one hour.
Restricted(timeSeries, hourKey) ==
    [k \in DOMAIN timeSeries \ {hourKey} |-> timeSeries[k]]

\* The series with the reading of one hour replaced, if it has one.
Replaced(timeSeries, hourKey, value) ==
    IF hourKey \in DOMAIN timeSeries
    THEN [timeSeries EXCEPT ![hourKey] = value] ELSE timeSeries

RECURSIVE ChangedSeries(_, _)
\* The series with at most n of its hours missing or changed.
ChangedSeries(timeSeries, n) ==
    IF n = 0 THEN {timeSeries}
    ELSE LET fewer == ChangedSeries(timeSeries, n - 1)
         IN  fewer
             \cup {Restricted(t, ToString(h)) : t \in fewer, h \in {8, 9, 18}}
             \cup {Replaced(t, ToString(h), v) :
                      t \in fewer, h \in {8, 9, 18},
                      v \in {Num(451), JsonNull, PosInfinity}}

InitDuration ==
    /\ \/ zoneSeries = Undefined
       \/ \E periods \in SUBSET PeriodNames :
             /\ Cardinality(periods) <= 4
             /\ zoneSeries \in [periods -> SeriesValues \ {Num(234), Num(451)}]
       \/ \E value \in {Num(234), Num(451)} :
             zoneSeries \in ChangedSeries(FullDaySeries(value), MaxChangedHours)
    /\ targetRange \in TargetRanges
    /\ hourRange \in HourRanges
    /\ durationText = "" /\ pc = "start"
    /\ RecIdle /\ ScoreIdle /\ LoadIdle /\ ParseIdle /\ FeelIdle /\ ColumnIdle
    /\ AfterDurationIdle

PredictIdeal ==
    /\ pc = "start"
    /\ durationText' =
           predictIdealDuration(zoneSeries, targetRange.min, targetRange.max)
    /\ pc' = "ideal"
    /\ UNCHANGED <<zoneSeries, targetRange, hourRange, afterDurationVars,
                   recVars, scoreVars, loadVars, parseVars, feelVars,
                   columnVars>>

PredictHourly ==
    /\ pc = "start"
    /\ durationText' =
           predictHourlyDuration(zoneSeries, targetRange.min, targetRange.max,
                                 hourRange.startHour, hourRange.endHour, 1)
    /\ pc' = "hourly"
    /\ UNCHANGED <<zoneSeries, targetRange, hourRange, afterDurationVars,
                   recVars, scoreVars, loadVars, parseVars, feelVars,
                   columnVars>>

NextDuration == PredictIdeal \/ PredictHourly

SpecDuration == InitDuration /\ [][NextDuration]_vars

\* The periods the claim counts and the ones of them it calls suitable.
ClaimedConsidered ==
    IF NoSeries(zoneSeries) THEN {}
    ELSE {p \in DOMAIN zoneSeries :
             ClaimedWeight(p) > 0 /\ IsNumberValue(zoneSeries[p])}
ClaimedSuitable ==
    {p \in ClaimedConsidered :
        /\ zoneSeries[p].kind = "number"
        /\ zoneSeries[p].val >= targetRange.min
        /\ zoneSeries[p].val <= targetRange.max}

\* The bucket of s suitable periods out of c > 0.
ClaimedBucket(s, c) ==
    IF s = c THEN "Consistently throughout main periods"
    ELSE IF 4 * s >= 3 * c THEN "Most of the main periods"
    ELSE IF 2 * s >= c THEN "About half of the main periods"
    ELSE IF s > 0 THEN "Some of the main periods"
    ELSE "Infrequently during main periods"

\* The returned texts that begin with 'N/A'.
BeginsWithNA(text) ==
    text \in {"N/A (No time series data for duration)",
              "N/A (No relevant time series data for duration)",
              "N/A (Time series format not directly compatible for this duration prediction type)"}

\* C26 as stated: with c > 0 considered periods the bucket of s out of c is
\* returned, and with c = 0 a text beginning with 'N/A'.
C26_NoRelevantPeriodGivesNA ==
    pc = "ideal" =>
        LET c == Cardinality(ClaimedConsidered)
            s == Cardinality(ClaimedSuitable)
        IN  IF c > 0 THEN durationText = ClaimedBucket(s, c)
            ELSE BeginsWithNA(durationText)

\* C26, amended: predictIdealDuration counts the periods of positive
\* office-hours weight with a numeric value; with c > 0 of them it returns
\* the bucket of the s suitable ones; with c = 0 it returns 'N/A (No time
\* series data for duration)' for a missing or empty timeSeries and 'Data
\* available, but not for primary work hours for duration check' for any
\* other.
C26_BucketOrExplanation ==
    pc = "ideal" =>
        LET c == Cardinality(ClaimedConsidered)
            s == Cardinality(ClaimedSuitable)
        IN  IF c > 0 THEN durationText = ClaimedBucket(s, c)
            ELSE IF NoSeries(zoneSeries)
            THEN durationText = "N/A (No time series data for duration)"
            ELSE durationText =
                "Data available, but not for primary work hours for duration check"

\* C26 happens: the zone has a reading for the night only, within the range,
\* and the text returned does not begin with 'N/A'.
C26_Witness ==
    /\ pc = "ideal"
    /\ ~NoSeries(zoneSeries) /\ DOMAIN zoneSeries = {"Night"}
    /\ zoneSeries["Night"] = Num(1000) /\ targetRange.max = 1500
    /\ ~BeginsWithNA(durationText)

\* The hours of the range the claim calls suitable.
ClaimedSuitableHours ==
    {h \in hourRange.startHour..hourRange.endHour :
        /\ ToString(h) \in DOMAIN zoneSeries
        /\ zoneSeries[ToString(h)].kind = "number"
        /\ zoneSeries[ToString(h)].val >= targetRange.min
        /\ zoneSeries[ToString(h)].val <= targetRange.max}

\* C27: on a non-empty timeSeries predictHourlyDuration returns
\* 'Consistently from start:00-end:00' iff every hour of the range has a
\* numeric value within the target range, 'Approximately N hour(s) between
\* ...' with N the number of such hours iff some but not all have, and 'Not
\* typically within range ...' iff none has.
C27_HourlyDurationText ==
    pc = "hourly" /\ ~NoSeries(zoneSeries) =>
        LET hours    == hourRange.startHour..hourRange.endHour
            suitable == ClaimedSuitableHours
        IN  /\ durationText.startHour = hourRange.startHour
            /\ durationText.endHour = hourRange.endHour
            /\ durationText.text = "Consistently from" <=> suitable = hours
            /\ durationText.text = "Approximately"
                   <=> suitable # {} /\ suitable # hours
            /\ durationText.text = "Approximately"
                   => durationText.hours = Cardinality(suitable)
            /\ durationText.text = "Not typically within range between"
                   <=> suitable = {}

\* C27 happens: of the hours 8 to 18 one has null for a value, the others
\* are within the range, and the text is 'Approximately 10 hour(s) ...'.
C27_Witness ==
    /\ pc = "hourly" /\ ~NoSeries(zoneSeries)
    /\ hourRange = [startHour |-> 8, endHour |-> 18]
    /\ DOMAIN zoneSeries = {ToString(h) : h \in 7..19}
    /\ zoneSeries["9"] = JsonNull
    /\ durationText = HourlyText("Approximately", 10, 8, 18)

-----------------------------------------------------------------------------
(* SpecQuiz: a quiz page from the end of its script to the click on Next.
   The page's CSV fetch is pending, the listeners of the options and of the
   Next button are attached by setupQuizInteractions, which the fetch chain
   calls; the radio buttons are in the page from the start. *)

QuizPreferences ==
    {"lightingPreference", "spaceUsagePreference", "temperaturePreference"}

\* The values of the radio buttons of a step.
QuizOptions(preferenceType) ==
    IF preferenceType = "lightingPreference" THEN DOMAIN lightingThresholds
    ELSE IF preferenceType = "spaceUsagePreference"
    THEN DOMAIN noiseWorkTypeThresholds
    ELSE DOMAIN temperatureThresholds

\* preferenceTypeForPage.replace('Preference', 'ProcessedData')
StorageKey(preferenceType) ==
    IF preferenceType = "lightingPreference" THEN "lightProcessedData"
    ELSE IF preferenceType = "spaceUsagePreference" THEN "noiseProcessedData"
    ELSE "temperatureProcessedData"

\* nextPage, with the last step going to the loading page.
TargetUrl(preferenceType) ==
    IF preferenceType = "lightingPreference" THEN "quiz-step2.html"
    ELSE IF preferenceType = "spaceUsagePreference" THEN "quiz-step3.html"
    ELSE "loading.html"

\* The addresses a step is opened with.
QuizUrls(preferenceType) ==
    IF preferenceType = "lightingPreference"
    THEN {"index.html", "index.html?start=new"}
    ELSE IF preferenceType = "spaceUsagePreference" THEN {"quiz-step2.html"}
    ELSE {"quiz-step3.html"}

\* What the fetch of the step's CSV is answered with, the text given by the
\* list its parser makes of it.
QuizAnswers(preferenceType) ==
    {[status |-> "not found", data |-> <<>>],
     [status |-> "empty", data |-> <<>>]}
    \cup {[status |-> "ok", data |-> d] :
             d \in IF preferenceType = "lightingPreference" THEN LoadLightData
                   ELSE IF preferenceType = "spaceUsagePreference"
                   THEN LoadNoiseData ELSE LoadTempData}

\* Storage when the page is opened: what an earlier session left, and
\* nothing of it when the quiz is started anew.
InitQuiz ==
    /\ preferenceTypeForPage \in QuizPreferences
    /\ location \in QuizUrls(preferenceTypeForPage)
    /\ \E stored \in {Null, "", "bright"} \cup QuizOptions(preferenceTypeForPage),
          ld \in LoadLightData, fr \in {NotStored, Stored(EarlierRecommendations)} :
          localStorage =
             IF location = "index.html?start=new"
             THEN [lightingPreference |-> Null, spaceUsagePreference |-> Null,
                   temperaturePreference |-> Null,
                   lightProcessedData |-> <<>>, noiseProcessedData |-> <<>>,
                   temperatureProcessedData |-> <<>>,
                   finalRecommendations |-> NotStored]
             ELSE [ [lightingPreference |-> Null, spaceUsagePreference |-> Null,
                     temperaturePreference |-> Null,
                     lightProcessedData |-> ld, noiseProcessedData |-> <<>>,
                     temperatureProcessedData |-> <<>>,
                     finalRecommendations |-> fr]
                    EXCEPT ![preferenceTypeForPage] = stored ]
    /\ quizCsv \in QuizAnswers(preferenceTypeForPage)
    /\ quizFetch = "pending" /\ setupCalls = 0
    /\ checkedOption = Null
    /\ nextButton \in [disabled : BOOLEAN, active : {FALSE}]
    /\ csvFiles = <<>> /\ pageData = <<>> /\ promises = <<>>
    /\ allPromise = "idle" /\ clock = 0 /\ timerDue = 0
    /\ pc = "idle"
    /\ RecIdle /\ ScoreIdle /\ ParseIdle /\ FeelIdle /\ ColumnIdle
    /\ DurationIdle /\ MenuIdle

OnQuizPage == location \in QuizUrls(preferenceTypeForPage)

\* The radio button setupQuizInteractions leaves checked: the one of the
\* stored preference if there is one, else the one that was checked.
CheckedAfterSetup ==
    LET storedPreference == localStorage[preferenceTypeForPage]
    IN  IF /\ storedPreference # Null /\ storedPreference # ""
           /\ storedPreference \in QuizOptions(preferenceTypeForPage)
        THEN storedPreference
        ELSE checkedOption

\* updateNextButtonState for the checked radio button, if any.
updateNextButtonState(checkedRadioButton) ==
    [disabled |-> checkedRadioButton = Null,
     active   |-> checkedRadioButton # Null]

\* setupQuizInteractions: the stored preference is applied, the listeners
\* are attached, the Next button is updated.
setupQuizInteractions ==
    /\ setupCalls' = setupCalls + 1
    /\ checkedOption' = CheckedAfterSetup
    /\ nextButton' = updateNextButtonState(CheckedAfterSetup)

\* The .catch of the fetch chain that only logs the error.
QuizFetchFailSilent ==
    /\ OnQuizPage /\ quizFetch = "pending" /\ quizCsv.status # "ok"
    /\ quizFetch' = "rejected"
    /\ UNCHANGED <<setupCalls, checkedOption, nextButton>>
    /\ UNCHANGED <<localStorage, preferenceTypeForPage, quizCsv, location,
                   csvFiles, pageData, promises, allPromise, clock, timerDue>>
    /\ UNCHANGED <<pc, recVars, scoreVars, parseVars, feelVars, columnVars,
                   durationVars, menuVars>>

\* The fetch answers with a text that is not empty: it is parsed and stored,
\* then setupQuizInteractions is called.
QuizFetchOk ==
    /\ OnQuizPage /\ quizFetch = "pending" /\ quizCsv.status = "ok"
    /\ localStorage' =
          [localStorage EXCEPT ![StorageKey(preferenceTypeForPage)] =
                                   quizCsv.data]
    /\ setupQuizInteractions
    /\ quizFetch' = "fulfilled"
    /\ UNCHANGED <<preferenceTypeForPage, quizCsv, location,
                   csvFiles, pageData, promises, allPromise, clock, timerDue>>
    /\ UNCHANGED <<pc, recVars, scoreVars, parseVars, feelVars, columnVars,
                   durationVars, menuVars>>

\* The fetch fails, answers with a status that is not OK or with an empty
\* text: the .catch calls setupQuizInteractions.
QuizFetchFail ==
    /\ OnQuizPage /\ quizFetch = "pending" /\ quizCsv.status # "ok"
    /\ setupQuizInteractions
    /\ quizFetch' = "rejected"
    /\ UNCHANGED <<localStorage, preferenceTypeForPage, quizCsv, location,
                   csvFiles, pageData, promises, allPromise, clock, timerDue>>
    /\ UNCHANGED <<pc, recVars, scoreVars, parseVars, feelVars, columnVars,
                   durationVars, menuVars>>

\* The user checks another radio button.  With the change listener attached
\* the value is stored and the Next button updated; without it only the
\* radio button changes.
CheckOption ==
    /\ OnQuizPage
    /\ \E value \in QuizOptions(preferenceTypeForPage) \ {checkedOption} :
          /\ checkedOption' = value
          /\ IF setupCalls > 0
             THEN /\ localStorage' =
                        [localStorage EXCEPT ![preferenceTypeForPage] = value]
                  /\ nextButton' = updateNextButtonState(value)
             ELSE UNCHANGED <<localStorage, nextButton>>
    /\ UNCHANGED <<preferenceTypeForPage, quizCsv, quizFetch, setupCalls,
                   location,
                   csvFiles, pageData, promises, allPromise, clock, timerDue>>
    /\ UNCHANGED <<pc, recVars, scoreVars, parseVars, feelVars, columnVars,
                   durationVars, menuVars>>

\* A click on Next with its listener attached.
ClickNext ==
    /\ OnQuizPage /\ setupCalls > 0
    /\ IF nextButton.disabled THEN UNCHANGED location
       ELSE location' = TargetUrl(preferenceTypeForPage)
    /\ UNCHANGED <<localStorage, csvFiles, pageData, promises, allPromise,
                   clock, timerDue>>
    /\ UNCHANGED <<pc, recVars, scoreVars, parseVars, feelVars, columnVars,
                   durationVars, quizVars, menuVars>>

NextQuiz == QuizFetchOk \/ QuizFetchFail \/ CheckOption \/ ClickNext

SpecQuiz == InitQuiz /\ [][NextQuiz]_vars

\* The fetch is answered or fails in the end.
SpecQuizFair ==
    InitQuiz /\ [][NextQuiz]_vars /\ WF_vars(QuizFetchOk) /\ WF_vars(QuizFetchFail)

\* C28 as stated: once setupQuizInteractions has run, the Next button is
\* enabled and has the class next-btn-active iff an option is checked, a
\* checked option is the stored preference of the step, and the page is left
\* by a click on Next only when the button is enabled.
C28_NextButtonFollowsChoice ==
    [][ /\ setupCalls' > 0 =>
             /\ nextButton'.disabled <=> checkedOption' = Null
             /\ nextButton'.active <=> checkedOption' # Null
             /\ checkedOption' # Null =>
                    localStorage'[preferenceTypeForPage] = checkedOption'
        /\ location' # location => ~nextButton.disabled
      ]_vars

\* C29: setupQuizInteractions is invoked in the end, and once only; when the
\* fetch succeeded, with the parsed data stored under the step's key, when it
\* failed or answered with an empty text, with storage as it was.
C29_SetupInvokedOnce ==
    /\ <>(setupCalls = 1)
    /\ [](setupCalls <= 1)
    /\ [][ setupCalls' # setupCalls =>
             /\ quizFetch = "pending"
             /\ \/ /\ quizCsv.status = "ok" /\ quizFetch' = "fulfilled"
                   /\ localStorage'[StorageKey(preferenceTypeForPage)]
                          = quizCsv.data
                \/ /\ quizCsv.status # "ok" /\ quizFetch' = "rejected"
                   /\ localStorage' = localStorage
         ]_vars

\* C29 happens: samba_noise.csv was not found, setupQuizInteractions has run
\* once and the noise data of the earlier session is still what is stored.
C29_Witness ==
    /\ preferenceTypeForPage = "spaceUsagePreference"
    /\ quizCsv.status = "not found" /\ quizFetch = "rejected"
    /\ setupCalls = 1
    /\ localStorage.noiseProcessedData = <<>>
    /\ nextButton.disabled

-----------------------------------------------------------------------------
(* SpecMenu: the sidebar menu, the FYBS nav menu and the overlay of a page,
   from the end of the page's script on, under the events of the user.  The
   page is given by which of the menu elements it has; every class starts
   unset. *)

\* genOverlay: the .overlay of the page, or the one the script creates.
HasOverlay ==
    \/ elements.overlay \/ elements.menuBtn \/ elements.closeMenuBtn
    \/ elements.mobileMenuToggle

\* The toggle has its listener only with #navMenu and .fybs-hamburger there.
HasFybsMenu ==
    elements.mobileMenuToggle /\ elements.navMenu /\ elements.hamburger

InitMenu ==
    /\ elements \in [menuBtn : BOOLEAN, closeMenuBtn : BOOLEAN,
                     sidebarMenu : BOOLEAN, menuLinks : BOOLEAN,
                     overlay : BOOLEAN, mobileMenuToggle : BOOLEAN,
                     navMenu : BOOLEAN, hamburger : BOOLEAN]
    /\ sidebarVisible = FALSE /\ navMenuActive = FALSE
    /\ hamburgerActive = FALSE /\ overlayVisible = FALSE
    /\ bodyMenuActive = FALSE
    /\ pc = "idle"
    /\ RecIdle /\ ScoreIdle /\ LoadIdle /\ ParseIdle /\ FeelIdle /\ ColumnIdle
    /\ DurationIdle /\ QuizIdle

\* handleCloseActions: the menus that are open are closed, and if one was,
\* the overlay is hidden and body loses menu-active.
handleCloseActions ==
    LET fybsMenuOpen   == elements.navMenu /\ navMenuActive
        oldSidebarOpen == elements.sidebarMenu /\ sidebarVisible
    IN  /\ navMenuActive' = FALSE
        /\ hamburgerActive' =
              IF fybsMenuOpen /\ elements.mobileMenuToggle /\ elements.hamburger
              THEN FALSE ELSE hamburgerActive
        /\ sidebarVisible' = FALSE
        /\ IF fybsMenuOpen \/ oldSidebarOpen
           THEN overlayVisible' = FALSE /\ bodyMenuActive' = FALSE
           ELSE UNCHANGED <<overlayVisible, bodyMenuActive>>

\* A click on .menu-btn: openGenSidebarMenu.
MenuButtonClick ==
    /\ elements.menuBtn
    /\ sidebarVisible' = (elements.sidebarMenu \/ sidebarVisible)
    /\ overlayVisible' = (HasOverlay \/ overlayVisible)
    /\ bodyMenuActive' = TRUE
    /\ UNCHANGED <<elements, navMenuActive, hamburgerActive>>
    /\ UNCHANGED <<pc, recVars, scoreVars, loadVars, parseVars, feelVars,
                   columnVars, durationVars, quizVars>>

\* A click on .close-menu-btn, a button of the open sidebar:
\* closeGenSidebarMenu.
CloseMenuButtonClick ==
    /\ elements.closeMenuBtn /\ elements.sidebarMenu /\ sidebarVisible
    /\ sidebarVisible' = FALSE
    /\ UNCHANGED <<elements, navMenuActive, hamburgerActive, overlayVisible,
                   bodyMenuActive>>
    /\ UNCHANGED <<pc, recVars, scoreVars, loadVars, parseVars, feelVars,
                   columnVars, durationVars, quizVars>>

\* A click on a link of the open sidebar: the sidebar is closed, and the
\* overlay hidden if no menu is open then.
SidebarLinkClick ==
    /\ elements.menuLinks /\ elements.sidebarMenu /\ sidebarVisible
    /\ sidebarVisible' = FALSE
    /\ IF ~(elements.navMenu /\ navMenuActive)
       THEN overlayVisible' = FALSE /\ bodyMenuActive' = FALSE
       ELSE UNCHANGED <<overlayVisible, bodyMenuActive>>
    /\ UNCHANGED <<elements, navMenuActive, hamburgerActive>>
    /\ UNCHANGED <<pc, recVars, scoreVars, loadVars, parseVars, feelVars,
                   columnVars, durationVars, quizVars>>

\* A click on the visible overlay.
OverlayClick ==
    /\ HasOverlay /\ overlayVisible
    /\ handleCloseActions
    /\ UNCHANGED elements
    /\ UNCHANGED <<pc, recVars, scoreVars, loadVars, parseVars, feelVars,
                   columnVars, durationVars, quizVars>>

\* The Escape key.
EscapeKey ==
    /\ handleCloseActions
    /\ UNCHANGED elements
    /\ UNCHANGED <<pc, recVars, scoreVars, loadVars, parseVars, feelVars,
                   columnVars, durationVars, quizVars>>

\* A click on #mobileMenuToggle.
MobileToggleClick ==
    /\ HasFybsMenu
    /\ navMenuActive' = ~navMenuActive
    /\ hamburgerActive' = ~hamburgerActive
    /\ overlayVisible' = ~navMenuActive
    /\ bodyMenuActive' = ~navMenuActive
    /\ UNCHANGED <<elements, sidebarVisible>>
    /\ UNCHANGED <<pc, recVars, scoreVars, loadVars, parseVars, feelVars,
                   columnVars, durationVars, quizVars>>

NextMenu ==
    \/ MenuButtonClick \/ CloseMenuButtonClick \/ SidebarLinkClick
    \/ OverlayClick \/ EscapeKey \/ MobileToggleClick

SpecMenu == InitMenu /\ [][NextMenu]_vars

\* A page with the sidebar menu complete: its button, its close button and
\* its links.
HasSidebarMenu ==
    /\ elements.menuBtn /\ elements.closeMenuBtn /\ elements.sidebarMenu
    /\ elements.menuLinks

\* A page whose menus are complete or absent.
WellFormedPage ==
    /\ HasSidebarMenu \/ ~(\/ elements.menuBtn \/ elements.closeMenuBtn
                           \/ elements.sidebarMenu \/ elements.menuLinks)
    /\ HasFybsMenu \/ ~(\/ elements.mobileMenuToggle \/ elements.navMenu
                        \/ elements.hamburger)

\* C30 as stated: the overlay is visible and body has the class menu-active
\* iff the sidebar menu or the FYBS nav menu is open.
C30_OverlayIffMenuOpen ==
    WellFormedPage =>
        /\ overlayVisible <=> (sidebarVisible \/ navMenuActive)
        /\ bodyMenuActive <=> (sidebarVisible \/ navMenuActive)

====
